---- MODULE Spec2Model ----
(***************************************************************************)
(* Key-custody state machine of plebtap: the persisted security record     *)
(* (services/secureStorage.ts), the security store (stores/               *)
(* security.svelte.ts), the PIN verifier (services/crypto.ts) and the      *)
(* NIP-49 envelope (utils/nip49.ts).                                       *)
(*                                                                         *)
(* Every asynchronous operation is split where the code awaits IndexedDB:  *)
(* one action is the continuation that runs when a storage request         *)
(* completes, up to the next request the code issues.  Synchronous calls   *)
(* (lockSession, getUnlockedKey, extendUnlockSession), the session timer   *)
(* and the clock may run between two such continuations.                   *)
(*                                                                         *)
(* null is the record Null for objects and 0 for timestamps and timer      *)
(* handles (the code tests both by truthiness; the clock starts at 1).     *)
(***************************************************************************)
EXTENDS Integers, Sequences, FiniteSets, TLC

VARIABLES
    db,                  \* the persisted SecureStorageSchema (IndexedDB row 'primary')
    securityState,       \* the reactive securityState object
    currentUnlockedKey,  \* the in-memory DecryptedKey, or Null
    lockedKeyObject,     \* the DecryptedKey object lockSession last let go of, as it left it
    unlockTimeoutHandle, \* the handle of the last installed session timer, 0 = null
    timers,              \* deadlines of the pending setTimeout callbacks
    now,                 \* Date.now(), in milliseconds
    failedSinceStart,    \* history: a failed PIN attempt was recorded since the process started
    failedSinceSetup,    \* history: a failed PIN attempt was recorded since the last setup completed
    lastChange,          \* history: the last successful changePIN, Null once the key is stored anew
    wrongChecked,        \* history of concurrent runs: wrong PINs checked since the failure counter was last reset
    tasks,               \* the asynchronous calls in flight
    ret,                 \* the value the last step returned to its caller, NoRet if none
    maxInFlight,         \* how many asynchronous calls may be in flight at once
    call                 \* the library function under evaluation: its inputs and results

vars == <<db, securityState, currentUnlockedKey, lockedKeyObject,
          unlockTimeoutHandle, timers, now, failedSinceStart,
          failedSinceSetup, lastChange, wrongChecked, tasks, ret, maxInFlight, call>>

-----------------------------------------------------------------------------
(* Bounds of the model *)

\* fine clock steps (1 ms) taken after the last coarse step
MaxFine == 2
\* latest clock value
MaxNow == 300002

\* the wrong PINs counted between two resets of the failure counter
MaxWrongChecked == 6

-----------------------------------------------------------------------------
(* Program constants *)

PIN_RATE_LIMIT == [maxAttempts |-> 5, lockoutDuration |-> 5 * 60 * 1000,
                   resetAfter |-> 60 * 60 * 1000]
UNLOCK_SESSION_DURATION == 5 * 60 * 1000
CURRENT_SCHEMA_VERSION == 2
NIP49_DEFAULT_LOGN == 16
NIP49_FAST_LOGN == 1
INSECURE_STORAGE_KEY == <<"insecure-plebtap-key">>

Null == [tag |-> "null"]

\* the string '' where a hex string is held, and where a bech32 string is held
EmptyString == <<>>
EmptyBech32 == [hrp |-> "", data |-> <<>>]

-----------------------------------------------------------------------------
(* Inputs *)

Digits == {"0", "1", "2", "3", "4", "5", "6", "7", "8", "9"}
HexDigits == <<"0", "1", "2", "3", "4", "5", "6", "7", "8", "9",
               "a", "b", "c", "d", "e", "f">>
\* the digits hexToBytes reads as well
UpperHexDigits == <<"0", "1", "2", "3", "4", "5", "6", "7", "8", "9",
                    "A", "B", "C", "D", "E", "F">>

PinA == <<"1", "2", "3", "4">>
PinB == <<"4", "3", "2", "1">>
PinD == <<"1", "2", "a", "4">>
\* the PINs a caller may type: two of 4 digits, one with a non-digit
Pins == {PinA, PinB, PinD}
PinLengths == {4, 6}

\* private keys in hex (lowercase, as every producer of PrivateKeyHex emits),
\* shortened to one byte
Keys == {<<"0", "a">>, <<"f", "1">>}
\* what isPlatformAuthenticatorAvailable() may answer on this device
PlatformAuthenticator == {TRUE}
\* the optional mnemonic argument
Mnemonics == {Null, [tag |-> "mnemonic", words |-> <<109, 49>>]}

-----------------------------------------------------------------------------
(* types/security.ts *)

\* isValidPIN that checks the length only: a fault C16 tells from the code
isValidPIN_LengthOnly(value, expectedLength) ==
    /\ Len(value) > 0
    /\ Len(value) = expectedLength

isValidPIN(value, expectedLength) ==
    /\ Len(value) > 0
    /\ Len(value) = expectedLength
    /\ \A i \in 1..Len(value) : value[i] \in Digits

\* lastUnlockAt is left out: recordUnlock writes it and only getLastUnlockTime,
\* which nothing calls, reads it
DEFAULT_SECURITY_PREFERENCES ==
    [authMethod |-> "none", pinLength |-> 6,
     failedPinAttempts |-> 0, lastFailedAttemptAt |-> 0,
     autoLockEnabled |-> FALSE]

-----------------------------------------------------------------------------
(* services/crypto.ts and utils/nip49.ts *)

HexVal(c) == CHOOSE i \in 0..15 : HexDigits[i + 1] = c \/ UpperHexDigits[i + 1] = c

hexToBytes(hex) ==
    [i \in 1..(Len(hex) \div 2) |-> 16 * HexVal(hex[2 * i - 1]) + HexVal(hex[2 * i])]

bytesToHex(bytes) ==
    [i \in 1..(2 * Len(bytes)) |->
        IF i % 2 = 1 THEN HexDigits[(bytes[(i + 1) \div 2] \div 16) + 1]
                     ELSE HexDigits[(bytes[i \div 2] % 16) + 1]]

\* secp256k1 x-only public key of a private key: an injective, one-way image
\* of its bytes, in hex
privateKeyToPublicKey(privateKeyHex) ==
    [tag |-> "pub", hex |-> bytesToHex(hexToBytes(privateKeyHex))]

\* the bits of the numbers of s, each w bits wide, most significant first
Bits(s, w) ==
    [k \in 1..(w * Len(s)) |-> (s[((k - 1) \div w) + 1] \div (2 ^ (w - 1 - ((k - 1) % w)))) % 2]

\* the number that n bits starting after the first `from` bits spell, with
\* zeros past the end
RECURSIVE Group(_, _, _)
Group(bits, from, n) ==
    IF n = 0 THEN 0
    ELSE 2 * Group(bits, from, n - 1)
         + (IF from + n <= Len(bits) THEN bits[from + n] ELSE 0)

\* bech32.toWords without the padding of the last word
toWords_NoPadding(bytes) ==
    [k \in 1..((8 * Len(bytes)) \div 5) |-> Group(Bits(bytes, 8), 5 * (k - 1), 5)]

\* bech32.toWords: 8-bit groups to 5-bit groups, the last padded with zeros
toWords(bytes) ==
    [k \in 1..((8 * Len(bytes) + 4) \div 5) |-> Group(Bits(bytes, 8), 5 * (k - 1), 5)]

\* bech32.fromWords accepts less than 5 bits of padding, all zero
ValidPadding(words) ==
    /\ (5 * Len(words)) % 8 < 5
    /\ \A k \in 1..(5 * Len(words)) :
          k > 8 * ((5 * Len(words)) \div 8) => Bits(words, 5)[k] = 0

\* bech32.fromWords: 5-bit groups to 8-bit groups, the padding dropped
fromWords(words) ==
    [k \in 1..((5 * Len(words)) \div 8) |-> Group(Bits(words, 5), 8 * (k - 1), 8)]

\* bech32.encode and bech32.decode: a string of BECH32_LIMIT characters at
\* most, held as its prefix and its words; the checksum of a string that
\* encode produced verifies
privateKeyToNsec(privateKeyHex) ==
    [hrp |-> "nsec", data |-> toWords(hexToBytes(privateKeyHex))]

nsecToPrivateKey(nsec) ==
    IF nsec.hrp # "nsec" THEN [ok |-> FALSE, error |-> "Invalid nsec prefix"]
    ELSE IF ~ValidPadding(nsec.data) THEN [ok |-> FALSE, error |-> "Invalid padding"]
    ELSE [ok |-> TRUE, value |-> bytesToHex(fromWords(nsec.data))]

publicKeyToNpub(publicKeyHex) ==
    [hrp |-> "npub", data |-> toWords(hexToBytes(publicKeyHex.hex))]

npubToPublicKey(npub) ==
    IF npub.hrp # "npub" THEN [ok |-> FALSE, error |-> "Invalid npub prefix"]
    ELSE IF ~ValidPadding(npub.data) THEN [ok |-> FALSE, error |-> "Invalid padding"]
    ELSE [ok |-> TRUE, value |-> [tag |-> "pub", hex |-> bytesToHex(fromWords(npub.data))]]

privateKeyToKeyPair(privateKeyHex) ==
    [privateKeyHex |-> privateKeyHex,
     publicKeyHex |-> privateKeyToPublicKey(privateKeyHex),
     nsec |-> privateKeyToNsec(privateKeyHex),
     npub |-> publicKeyToNpub(privateKeyToPublicKey(privateKeyHex)),
     mnemonic |-> Null]

\* PBKDF2-SHA256 of the PIN: the digest stands for the PIN it was computed from
hashPinForVerification(pin) ==
    [tag |-> "pinhash", hash |-> pin, algorithm |-> "pbkdf2-sha256", iterations |-> 100000]

timingSafeEqual(a, b) ==
    IF Len(a) # Len(b) THEN FALSE
    ELSE \A i \in 1..Len(a) : a[i] = b[i]

verifyPin(pin, storedHash) == timingSafeEqual(pin, storedHash.hash)

\* password.normalize('NFKC') on the characters of the model: the fullwidth
\* digit one (U+FF11) folds to the ASCII digit, every other character is its
\* own normal form
FullwidthOne == "U+FF11"
NFKC(password) ==
    [i \in DOMAIN password |-> IF password[i] = FullwidthOne THEN "1" ELSE password[i]]

\* a string is the sequence of its code points; one number stands for the
\* UTF-8 bytes of a code point
\* new TextEncoder().encode(mnemonic): UTF-8 has no encoding of an unpaired
\* surrogate, which is written as U+FFFD
LoneSurrogate == 55296
ReplacementCharacter == 65533
ByteOrderMark == 65279
TextEncode(mnemonic) ==
    [i \in DOMAIN mnemonic.words |->
        IF mnemonic.words[i] = LoneSurrogate THEN ReplacementCharacter
        ELSE mnemonic.words[i]]

\* new TextDecoder().decode(bytes): a leading byte order mark is dropped
TextDecode(bytes) ==
    [tag |-> "mnemonic",
     words |-> IF Len(bytes) > 0 /\ bytes[1] = ByteOrderMark
                 THEN Tail(bytes) ELSE bytes]

\* scrypt + XChaCha20-Poly1305: the envelope names the normalised password
\* its key was derived from; intact is FALSE once a byte of the ciphertext
\* was altered
encrypt(privateKey, password, logn) ==
    [hrp |-> "ncryptsec", version |-> 2, logn |-> logn, ksb |-> 2,
     password |-> NFKC(password), plaintext |-> privateKey, intact |-> TRUE]

encryptPrivateKeyNip49(privateKeyHex, password, logn) ==
    encrypt(hexToBytes(privateKeyHex), password, logn)

encryptMnemonicNip49(mnemonic, password, logn) ==
    [hrp |-> "ncryptmnem", version |-> 2, logn |-> logn, ksb |-> 0,
     password |-> NFKC(password), plaintext |-> TextEncode(mnemonic),
     intact |-> TRUE]

\* decrypt without the authentication tag check: a fault C6 tells from the code
decrypt_NoTag(encryptedKey, password) ==
    IF encryptedKey.hrp # "ncryptsec"
      THEN [ok |-> FALSE, error |-> "Invalid prefix", kdf |-> FALSE]
    ELSE IF encryptedKey.version # 2
      THEN [ok |-> FALSE, error |-> "Invalid version", kdf |-> FALSE]
    ELSE [ok |-> TRUE, value |-> encryptedKey.plaintext, kdf |-> TRUE]

\* decrypt that derives the key from the password as typed, without
\* normalize('NFKC'): a fault C24 tells from the code
decrypt_NoNormalize(encryptedKey, password) ==
    IF encryptedKey.hrp # "ncryptsec"
      THEN [ok |-> FALSE, error |-> "Invalid prefix", kdf |-> FALSE]
    ELSE IF encryptedKey.version # 2
      THEN [ok |-> FALSE, error |-> "Invalid version", kdf |-> FALSE]
    ELSE IF encryptedKey.password # password \/ ~encryptedKey.intact
      THEN [ok |-> FALSE, error |-> "invalid tag", kdf |-> TRUE]
    ELSE [ok |-> TRUE, value |-> encryptedKey.plaintext, kdf |-> TRUE]

\* decrypt that takes an envelope of any version: a fault C25 tells from the
\* code
decrypt_AnyVersion(encryptedKey, password) ==
    IF encryptedKey.hrp # "ncryptsec"
      THEN [ok |-> FALSE, error |-> "Invalid prefix", kdf |-> FALSE]
    ELSE IF encryptedKey.password # NFKC(password) \/ ~encryptedKey.intact
      THEN [ok |-> FALSE, error |-> "invalid tag", kdf |-> TRUE]
    ELSE [ok |-> TRUE, value |-> encryptedKey.plaintext, kdf |-> TRUE]

\* the outcome of decrypt: ok with the plaintext, or the Error it throws
\* (the message without the prefix or version it quotes); kdf tells whether
\* scrypt was run
decrypt(encryptedKey, password) ==
    IF encryptedKey.hrp # "ncryptsec"
      THEN [ok |-> FALSE, error |-> "Invalid prefix", kdf |-> FALSE]
    ELSE IF encryptedKey.version # 2
      THEN [ok |-> FALSE, error |-> "Invalid version", kdf |-> FALSE]
    ELSE IF encryptedKey.password # NFKC(password) \/ ~encryptedKey.intact
      THEN [ok |-> FALSE, error |-> "invalid tag", kdf |-> TRUE]
    ELSE [ok |-> TRUE, value |-> encryptedKey.plaintext, kdf |-> TRUE]

decryptPrivateKeyNip49(ncryptsec, password) ==
    LET r == decrypt(ncryptsec, password)
    IN  IF r.ok THEN [ok |-> TRUE, value |-> bytesToHex(r.value), kdf |-> TRUE]
        ELSE r

decryptMnemonicNip49(encryptedMnemonic, password) ==
    IF encryptedMnemonic.hrp # "ncryptmnem"
      THEN [ok |-> FALSE, error |-> "Invalid prefix", kdf |-> FALSE]
    ELSE IF encryptedMnemonic.version # 2
      THEN [ok |-> FALSE, error |-> "Invalid version", kdf |-> FALSE]
    ELSE IF encryptedMnemonic.password # NFKC(password) \/ ~encryptedMnemonic.intact
      THEN [ok |-> FALSE, error |-> "invalid tag", kdf |-> TRUE]
    ELSE [ok |-> TRUE, value |-> TextDecode(encryptedMnemonic.plaintext),
          kdf |-> TRUE]

-----------------------------------------------------------------------------
(* services/secureStorage.ts *)

createDefaultSchema ==
    [encryptedKey |-> Null, encryptedMnemonic |-> Null, pinHash |-> Null,
     webauthnCredential |-> Null, webauthnEncryptionKey |-> Null,
     preferences |-> DEFAULT_SECURITY_PREFERENCES,
     publicKeyHex |-> Null, schemaVersion |-> CURRENT_SCHEMA_VERSION]

\* the object updateStorage writes back: the record it read, overlaid with
\* the updates, preferences merged field by field
MergeUpdates(current, updates) ==
    [f \in DOMAIN current |->
        IF f = "preferences"
          THEN IF "preferences" \in DOMAIN updates
                 THEN [p \in DOMAIN current.preferences |->
                         IF p \in DOMAIN updates.preferences
                           THEN updates.preferences[p]
                           ELSE current.preferences[p]]
                 ELSE current.preferences
        ELSE IF f \in DOMAIN updates THEN updates[f] ELSE current[f]]

isNip49EncryptedKey(value) == value # Null /\ value.hrp = "ncryptsec"

-----------------------------------------------------------------------------
(* State of the asynchronous calls *)

\* no library function is under evaluation
NoCall == [fn |-> "none"]

TaskIds == 1..2

Idle ==
    [op |-> "idle", pc |-> "idle", pin |-> <<>>, len |-> 0, key |-> <<>>,
     mn |-> Null, cur |-> Null, n |-> 0, ts |-> 0, dk |-> Null, err |-> "",
     started |-> 0, decrypted |-> FALSE, reset |-> FALSE, avail |-> FALSE,
     enable |-> FALSE, caller |-> "none", oldPin |-> <<>>, newPin |-> <<>>,
     newLen |-> 0, cred |-> Null, ek |-> <<>>, pub |-> Null, before |-> Null,
     caught |-> FALSE,
     beforeWipe |-> FALSE]   \* history: in flight when a clearAllSecurityData completed

\* a returned value: the operation and the PIN it was called with, the result
\* object (success, error, key; waitSeconds is the N of the lockout message),
\* and whether the call ran decryptPrivateKeyNip49, resetFailedPinAttempts,
\* lockSession
NoRet ==
    [op |-> "none", pin |-> <<>>, success |-> FALSE, error |-> "", key |-> Null,
     waitSeconds |-> 0, decryptAttempted |-> FALSE, counterReset |-> FALSE,
     lockedNow |-> FALSE, rejected |-> FALSE, mnemonic |-> Null]

Failure(op, error) == [NoRet EXCEPT !.op = op, !.error = error]

Success(op, key) == [NoRet EXCEPT !.op = op, !.success = TRUE, !.key = key]

\* the promise of the operation rejects with Error(error): no result object
Rejected(op, error) == [NoRet EXCEPT !.op = op, !.rejected = TRUE, !.error = error]

\* the operation whose caller receives what the call in slot t returns:
\* changePIN returns what its unlockWithPIN and its setupPINAuth return
ResultOp(t) == IF tasks[t].caller # "none" THEN tasks[t].caller ELSE tasks[t].op

InFlight == {t \in TaskIds : tasks[t].op # "idle"}

\* a call starts in the lowest free slot
CanStart(t) ==
    /\ tasks[t].op = "idle"
    /\ \A u \in TaskIds : u < t => tasks[u].op # "idle"
    /\ Cardinality(InFlight) < maxInFlight

\* the in-memory state the synchronous helpers work on
Mem ==
    [securityState |-> securityState, currentUnlockedKey |-> currentUnlockedKey,
     lockedKeyObject |-> lockedKeyObject,
     unlockTimeoutHandle |-> unlockTimeoutHandle, timers |-> timers]

SetMem(m) ==
    /\ securityState' = m.securityState
    /\ currentUnlockedKey' = m.currentUnlockedKey
    /\ lockedKeyObject' = m.lockedKeyObject
    /\ unlockTimeoutHandle' = m.unlockTimeoutHandle
    /\ timers' = m.timers

memVars == <<securityState, currentUnlockedKey, lockedKeyObject,
             unlockTimeoutHandle, timers>>

clearTimeout(pending, handle) == pending \ {handle}

InitialSecurityState ==
    [authMethod |-> "none", pinLength |-> 6, webauthnAvailable |-> FALSE,
     hasStoredKey |-> FALSE, isUnlocked |-> FALSE, unlockExpiresAt |-> 0,
     isInitializing |-> TRUE, storedNpub |-> Null, autoLockEnabled |-> FALSE]

-----------------------------------------------------------------------------
(* stores/security.svelte.ts: session helpers *)

setUnlockedState(m, key, t) ==
    [securityState |-> [m.securityState EXCEPT !.isUnlocked = TRUE,
                            !.unlockExpiresAt = t + UNLOCK_SESSION_DURATION],
     currentUnlockedKey |-> key,
     lockedKeyObject |-> m.lockedKeyObject,
     unlockTimeoutHandle |-> m.unlockTimeoutHandle,
     timers |-> IF m.unlockTimeoutHandle # 0
                  THEN clearTimeout(m.timers, m.unlockTimeoutHandle)
                  ELSE m.timers]

startUnlockSession(m, key, t) ==
    LET cleared == IF m.unlockTimeoutHandle # 0
                     THEN clearTimeout(m.timers, m.unlockTimeoutHandle)
                     ELSE m.timers
    IN  IF m.securityState.autoLockEnabled
          THEN [securityState |-> [m.securityState EXCEPT !.isUnlocked = TRUE,
                                      !.unlockExpiresAt = t + UNLOCK_SESSION_DURATION],
                currentUnlockedKey |-> key,
                lockedKeyObject |-> m.lockedKeyObject,
                unlockTimeoutHandle |-> t + UNLOCK_SESSION_DURATION,
                timers |-> cleared \cup {t + UNLOCK_SESSION_DURATION}]
          ELSE [securityState |-> [m.securityState EXCEPT !.isUnlocked = TRUE,
                                      !.unlockExpiresAt = 0],
                currentUnlockedKey |-> key,
                lockedKeyObject |-> m.lockedKeyObject,
                unlockTimeoutHandle |-> m.unlockTimeoutHandle,
                timers |-> cleared]

\* the fields lockSession overwrites on the key object before it lets go of it
clearKeyObject(key) ==
    [key EXCEPT !.privateKeyHex = EmptyString, !.nsec = EmptyBech32]

lockSession(m) ==
    [securityState |-> [m.securityState EXCEPT !.isUnlocked = FALSE,
                            !.unlockExpiresAt = 0],
     currentUnlockedKey |-> Null,
     lockedKeyObject |-> IF m.currentUnlockedKey # Null
                           THEN clearKeyObject(m.currentUnlockedKey)
                           ELSE m.lockedKeyObject,
     unlockTimeoutHandle |-> 0,
     timers |-> IF m.unlockTimeoutHandle # 0
                  THEN clearTimeout(m.timers, m.unlockTimeoutHandle)
                  ELSE m.timers]

-----------------------------------------------------------------------------
(* Clock, process start, initializeSecurity *)

\* 1 ms passes
TickFine ==
    /\ (now % (PIN_RATE_LIMIT.lockoutDuration - 1)) <= MaxFine
    /\ now + 1 <= MaxNow
    /\ now' = now + 1
    /\ UNCHANGED <<db, memVars, failedSinceStart, failedSinceSetup, lastChange, wrongChecked, tasks, maxInFlight, call>>
    /\ ret' = NoRet

\* 1 ms less than the lockout (and session) duration passes
TickCoarse ==
    /\ now + (PIN_RATE_LIMIT.lockoutDuration - 1) <= MaxNow
    /\ now' = now + (PIN_RATE_LIMIT.lockoutDuration - 1)
    /\ UNCHANGED <<db, memVars, failedSinceStart, failedSinceSetup, lastChange, wrongChecked, tasks, maxInFlight, call>>
    /\ ret' = NoRet

\* the page is closed and loaded again: the module state is fresh, the calls
\* in flight are gone, the persisted record stays
Restart ==
    /\ securityState' = InitialSecurityState
    /\ currentUnlockedKey' = Null
    /\ lockedKeyObject' = Null
    /\ unlockTimeoutHandle' = 0
    /\ timers' = {}
    /\ tasks' = [t \in TaskIds |-> Idle]
    /\ ret' = NoRet
    /\ failedSinceStart' = FALSE
    /\ UNCHANGED <<db, now, failedSinceSetup, lastChange, wrongChecked, maxInFlight, call>>

\* initializeSecurity(), up to `await isPlatformAuthenticatorAvailable()`
InitializeSecurityCall(t) ==
    /\ CanStart(t)
    /\ securityState' = [securityState EXCEPT !.isInitializing = TRUE]
    /\ tasks' = [tasks EXCEPT ![t] = [Idle EXCEPT !.op = "initializeSecurity",
                                          !.pc = "is_avail", !.started = now]]
    /\ ret' = NoRet
    /\ UNCHANGED <<db, currentUnlockedKey, lockedKeyObject, unlockTimeoutHandle,
                   timers, now,
                   failedSinceStart, failedSinceSetup, lastChange, wrongChecked, maxInFlight, call>>

\* the platform answers; the five reads of Promise.all are issued together
InitializeSecurityAvail(t) ==
    /\ tasks[t].op = "initializeSecurity" /\ tasks[t].pc = "is_avail"
    /\ \E available \in PlatformAuthenticator :
         tasks' = [tasks EXCEPT ![t].avail = available, ![t].pc = "is_read"]
    /\ UNCHANGED <<db, memVars, now, failedSinceStart, failedSinceSetup, lastChange, wrongChecked, maxInFlight, call>>
    /\ ret' = NoRet

\* initializeSecurity that starts every process with a clean failure counter:
\* a fault C7 tells from the code
InitializeSecurityLoad_ClearsLockout(t) ==
    /\ tasks[t].op = "initializeSecurity" /\ tasks[t].pc = "is_read"
    /\ securityState' =
         [securityState EXCEPT
            !.authMethod = db.preferences.authMethod,
            !.pinLength = db.preferences.pinLength,
            !.webauthnAvailable = tasks[t].avail,
            !.hasStoredKey = isNip49EncryptedKey(db.encryptedKey),
            !.isUnlocked = FALSE,
            !.unlockExpiresAt = 0,
            !.storedNpub = IF db.publicKeyHex # Null
                             THEN publicKeyToNpub(db.publicKeyHex) ELSE Null,
            !.autoLockEnabled = db.preferences.autoLockEnabled,
            !.isInitializing = FALSE]
    /\ db' = [db EXCEPT !.preferences.failedPinAttempts = 0,
                        !.preferences.lastFailedAttemptAt = 0]
    /\ tasks' = [tasks EXCEPT ![t] = Idle]
    /\ ret' = Success("initializeSecurity", Null)
    /\ UNCHANGED <<currentUnlockedKey, lockedKeyObject, unlockTimeoutHandle,
                   timers, now,
                   failedSinceStart, failedSinceSetup, lastChange, wrongChecked, maxInFlight, call>>

\* the reads complete: the state is loaded from the record
InitializeSecurityLoad(t) ==
    /\ tasks[t].op = "initializeSecurity" /\ tasks[t].pc = "is_read"
    /\ securityState' =
         [securityState EXCEPT
            !.authMethod = db.preferences.authMethod,
            !.pinLength = db.preferences.pinLength,
            !.webauthnAvailable = tasks[t].avail,
            !.hasStoredKey = isNip49EncryptedKey(db.encryptedKey),
            !.isUnlocked = FALSE,
            !.unlockExpiresAt = 0,
            !.storedNpub = IF db.publicKeyHex # Null
                             THEN publicKeyToNpub(db.publicKeyHex) ELSE Null,
            !.autoLockEnabled = db.preferences.autoLockEnabled,
            !.isInitializing = FALSE]
    /\ tasks' = [tasks EXCEPT ![t] = Idle]
    /\ ret' = Success("initializeSecurity", Null)
    /\ UNCHANGED <<db, currentUnlockedKey, lockedKeyObject, unlockTimeoutHandle,
                   timers, now,
                   failedSinceStart, failedSinceSetup, lastChange, wrongChecked, maxInFlight, call>>

-----------------------------------------------------------------------------
(* updateStorage: the read half, shared by every caller *)

ReadPcs == {"sp_key_read", "sp_hash_read", "sp_mn_read", "reset_read",
            "rf_read2", "ru_read", "si_key_read", "si_mn_read", "si_pref_read",
            "pref_read", "ws_key_read", "ws_cred_read", "ws_mn_read",
            "wr_skey_read", "wr_scred_read", "wr_smn_read", "dw_read"}

WritePc(pc) ==
    CASE pc = "sp_key_read" -> "sp_key_write"
      [] pc = "sp_hash_read" -> "sp_hash_write"
      [] pc = "sp_mn_read" -> "sp_mn_write"
      [] pc = "reset_read" -> "reset_write"
      [] pc = "rf_read2" -> "rf_write"
      [] pc = "ru_read" -> "ru_write"
      [] pc = "si_key_read" -> "si_key_write"
      [] pc = "si_mn_read" -> "si_mn_write"
      [] pc = "si_pref_read" -> "si_pref_write"
      [] pc = "pref_read" -> "pref_write"
      [] pc = "ws_key_read" -> "ws_key_write"
      [] pc = "ws_cred_read" -> "ws_cred_write"
      [] pc = "ws_mn_read" -> "ws_mn_write"
      [] pc = "wr_skey_read" -> "wr_skey_write"
      [] pc = "wr_scred_read" -> "wr_scred_write"
      [] pc = "wr_smn_read" -> "wr_smn_write"
      [] pc = "dw_read" -> "dw_write"

\* `const current = await readStorage()`: the record is read, the write is issued
updateStorageRead(t) ==
    /\ tasks[t].pc \in ReadPcs
    /\ tasks' = [tasks EXCEPT ![t].cur = db, ![t].pc = WritePc(tasks[t].pc)]
    /\ UNCHANGED <<db, memVars, now, failedSinceStart, failedSinceSetup, lastChange, wrongChecked, maxInFlight, call>>
    /\ ret' = NoRet

\* what `await writeStorage(updated)` leaves in the store
updateStorage(t, updates) == MergeUpdates(tasks[t].cur, updates)

-----------------------------------------------------------------------------
(* setupPINAuth *)

\* the key object the setup operations hand to setUnlockedState
SetupKey(t) ==
    [privateKeyToKeyPair(tasks[t].key) EXCEPT !.mnemonic = tasks[t].mn]

\* setupPINAuth(privateKeyHex, publicKeyHex, pin, pinLength, mnemonic), up to
\* the read of storeEncryptedKey
SetupPINAuthCall(t, privateKeyHex, pin, pinLength, mnemonic) ==
    /\ CanStart(t)
    /\ IF ~isValidPIN(pin, pinLength)
         THEN /\ ret' = Failure("setupPINAuth", "PIN must be exactly N digits")
              /\ UNCHANGED tasks
         ELSE /\ tasks' = [tasks EXCEPT ![t] =
                    [Idle EXCEPT !.op = "setupPINAuth", !.pc = "sp_key_read",
                                 !.key = privateKeyHex, !.pin = pin,
                                 !.len = pinLength, !.mn = mnemonic,
                                 !.started = now]]
              /\ ret' = NoRet
    /\ UNCHANGED <<db, memVars, now, failedSinceStart, failedSinceSetup, lastChange, wrongChecked, maxInFlight, call>>

\* storeEncryptedKey has written; storePinHash reads
SetupPINAuthKeyStored(t) ==
    /\ tasks[t].op = "setupPINAuth" /\ tasks[t].pc = "sp_key_write"
    /\ db' = updateStorage(t,
                [encryptedKey |-> encryptPrivateKeyNip49(tasks[t].key, tasks[t].pin,
                                                         NIP49_DEFAULT_LOGN),
                 publicKeyHex |-> privateKeyToPublicKey(tasks[t].key),
                 schemaVersion |-> CURRENT_SCHEMA_VERSION])
    /\ tasks' = [tasks EXCEPT ![t].pc = "sp_hash_read"]
    /\ lastChange' = Null
    /\ UNCHANGED wrongChecked
    /\ UNCHANGED <<memVars, now, failedSinceStart, failedSinceSetup, maxInFlight, call>>
    /\ ret' = NoRet

\* the tail of setupPINAuth: the state update, setUnlockedState, the result
SetupPINAuthFinish(t) ==
    /\ SetMem(setUnlockedState(
                [Mem EXCEPT !.securityState =
                    [securityState EXCEPT !.authMethod = "pin",
                                          !.pinLength = tasks[t].len,
                                          !.hasStoredKey = TRUE]],
                SetupKey(t), now))
    /\ ret' = [Success(ResultOp(t), Null) EXCEPT !.pin = tasks[t].pin]
    /\ tasks' = [tasks EXCEPT ![t] = Idle]
    /\ failedSinceSetup' = FALSE
    /\ lastChange' = IF tasks[t].caller = "changePIN"
                       THEN [oldPin |-> tasks[t].oldPin, newPin |-> tasks[t].pin,
                             privateKeyHex |-> tasks[t].key, mnemonic |-> tasks[t].mn]
                       ELSE Null
    /\ UNCHANGED wrongChecked

\* storePinHash has written; storeEncryptedMnemonic reads if a mnemonic was given
SetupPINAuthHashStored(t) ==
    /\ tasks[t].op = "setupPINAuth" /\ tasks[t].pc = "sp_hash_write"
    /\ db' = updateStorage(t,
                [pinHash |-> hashPinForVerification(tasks[t].pin),
                 preferences |-> [authMethod |-> "pin", pinLength |-> tasks[t].len]])
    /\ IF tasks[t].mn # Null
         THEN /\ tasks' = [tasks EXCEPT ![t].pc = "sp_mn_read"]
              /\ UNCHANGED <<memVars, failedSinceSetup, lastChange, wrongChecked>>
              /\ ret' = NoRet
         ELSE SetupPINAuthFinish(t)
    /\ UNCHANGED <<now, failedSinceStart, maxInFlight, call>>

\* storeEncryptedMnemonic has written
SetupPINAuthMnemonicStored(t) ==
    /\ tasks[t].op = "setupPINAuth" /\ tasks[t].pc = "sp_mn_write"
    /\ db' = updateStorage(t,
                [encryptedMnemonic |-> encryptMnemonicNip49(tasks[t].mn, tasks[t].pin,
                                                            NIP49_DEFAULT_LOGN)])
    /\ SetupPINAuthFinish(t)
    /\ UNCHANGED <<now, failedSinceStart, maxInFlight, call>>

-----------------------------------------------------------------------------
(* unlockWithPIN *)

CeilDiv(a, b) == (a + b - 1) \div b

\* the wrong PINs checked since the failure counter was last reset, counted
\* up to MaxWrongChecked while several calls may be in flight
Tally(n) ==
    wrongChecked' = IF maxInFlight > 1
                      THEN IF n < MaxWrongChecked THEN n ELSE MaxWrongChecked
                      ELSE wrongChecked

\* checkRateLimit that locks only after the sixth failure: a fault C1 tells
\* from the code
checkRateLimit_OffByOne(count, lastAttemptAt, t) ==
    IF count <= PIN_RATE_LIMIT.maxAttempts
      THEN [limited |-> FALSE, reset |-> FALSE, waitTime |-> 0]
    ELSE IF lastAttemptAt # 0
      THEN IF t - lastAttemptAt < PIN_RATE_LIMIT.lockoutDuration
             THEN [limited |-> TRUE, reset |-> FALSE,
                   waitTime |-> PIN_RATE_LIMIT.lockoutDuration - (t - lastAttemptAt)]
             ELSE [limited |-> FALSE, reset |-> TRUE, waitTime |-> 0]
    ELSE [limited |-> FALSE, reset |-> FALSE, waitTime |-> 0]

\* checkRateLimit that holds the lockout for resetAfter instead of
\* lockoutDuration: a fault C2 tells from the code
checkRateLimit_ResetAfter(count, lastAttemptAt, t) ==
    IF count < PIN_RATE_LIMIT.maxAttempts
      THEN [limited |-> FALSE, reset |-> FALSE, waitTime |-> 0]
    ELSE IF lastAttemptAt # 0
      THEN IF t - lastAttemptAt < PIN_RATE_LIMIT.resetAfter
             THEN [limited |-> TRUE, reset |-> FALSE,
                   waitTime |-> PIN_RATE_LIMIT.resetAfter - (t - lastAttemptAt)]
             ELSE [limited |-> FALSE, reset |-> TRUE, waitTime |-> 0]
    ELSE [limited |-> FALSE, reset |-> FALSE, waitTime |-> 0]

\* checkRateLimit, after `await getFailedPinAttempts()`: limited with the wait
\* time, free, or expired (resetFailedPinAttempts is called)
checkRateLimit(count, lastAttemptAt, t) ==
    IF count < PIN_RATE_LIMIT.maxAttempts
      THEN [limited |-> FALSE, reset |-> FALSE, waitTime |-> 0]
    ELSE IF lastAttemptAt # 0
      THEN IF t - lastAttemptAt < PIN_RATE_LIMIT.lockoutDuration
             THEN [limited |-> TRUE, reset |-> FALSE,
                   waitTime |-> PIN_RATE_LIMIT.lockoutDuration - (t - lastAttemptAt)]
             ELSE [limited |-> FALSE, reset |-> TRUE, waitTime |-> 0]
    ELSE [limited |-> FALSE, reset |-> FALSE, waitTime |-> 0]

\* unlockWithPIN(pin), up to the read of checkRateLimit
UnlockWithPINCall(t, pin) ==
    /\ CanStart(t)
    /\ IF securityState.authMethod # "pin"
         THEN /\ ret' = [Failure("unlockWithPIN", "PIN authentication is not set up")
                           EXCEPT !.pin = pin]
              /\ UNCHANGED tasks
         ELSE /\ tasks' = [tasks EXCEPT ![t] =
                    [Idle EXCEPT !.op = "unlockWithPIN", !.pc = "rl_read",
                                 !.pin = pin, !.started = now]]
              /\ ret' = NoRet
    /\ UNCHANGED <<db, memVars, now, failedSinceStart, failedSinceSetup, lastChange, wrongChecked, maxInFlight, call>>

\* unlockWithPIN from the PIN format check to the read of getPinHash
UnlockValidate(t) ==
    IF ~isValidPIN(tasks[t].pin, securityState.pinLength)
      THEN /\ ret' = [Failure(ResultOp(t), "PIN must be N digits")
                        EXCEPT !.pin = tasks[t].pin,
                               !.counterReset = tasks[t].reset]
           /\ tasks' = [tasks EXCEPT ![t] = Idle]
      ELSE /\ tasks' = [tasks EXCEPT ![t].pc = "hash_read"]
           /\ ret' = NoRet

\* a refusal that counts as one more failed attempt: a fault C4 tells from
\* the code
UnlockRateLimitChecked_CountsRefusal(t) ==
    /\ tasks[t].op = "unlockWithPIN" /\ tasks[t].pc = "rl_read"
    /\ LET rateLimit == checkRateLimit(db.preferences.failedPinAttempts,
                                       db.preferences.lastFailedAttemptAt, now)
       IN  IF rateLimit.limited
             THEN /\ ret' = [Failure(ResultOp(t), "Too many failed attempts")
                               EXCEPT !.waitSeconds = CeilDiv(rateLimit.waitTime, 1000),
                                      !.pin = tasks[t].pin]
                  /\ tasks' = [tasks EXCEPT ![t] = Idle]
                  /\ db' = [db EXCEPT !.preferences.lastFailedAttemptAt = now]
           ELSE IF rateLimit.reset
             THEN /\ tasks' = [tasks EXCEPT ![t].pc = "reset_read", ![t].reset = TRUE]
                  /\ ret' = NoRet
                  /\ UNCHANGED db
           ELSE UnlockValidate(t) /\ UNCHANGED db
    /\ UNCHANGED <<memVars, now, failedSinceStart, failedSinceSetup, lastChange, wrongChecked, maxInFlight, call>>

\* the read of checkRateLimit completes
UnlockRateLimitChecked(t) ==
    /\ tasks[t].op = "unlockWithPIN" /\ tasks[t].pc = "rl_read"
    /\ LET rateLimit == checkRateLimit(db.preferences.failedPinAttempts,
                                       db.preferences.lastFailedAttemptAt, now)
       IN  IF rateLimit.limited
             THEN /\ ret' = [Failure(ResultOp(t), "Too many failed attempts")
                               EXCEPT !.waitSeconds = CeilDiv(rateLimit.waitTime, 1000),
                                      !.pin = tasks[t].pin]
                  /\ tasks' = [tasks EXCEPT ![t] = Idle]
           ELSE IF rateLimit.reset
             THEN /\ tasks' = [tasks EXCEPT ![t].pc = "reset_read", ![t].reset = TRUE]
                  /\ ret' = NoRet
           ELSE UnlockValidate(t)
    /\ UNCHANGED <<db, memVars, now, failedSinceStart, failedSinceSetup, lastChange, wrongChecked, maxInFlight, call>>

\* resetFailedPinAttempts has written
UnlockCounterReset(t) ==
    /\ tasks[t].op = "unlockWithPIN" /\ tasks[t].pc = "reset_write"
    /\ db' = updateStorage(t,
                [preferences |-> [failedPinAttempts |-> 0, lastFailedAttemptAt |-> 0]])
    /\ UnlockValidate(t)
    /\ UNCHANGED <<memVars, now, failedSinceStart, failedSinceSetup, lastChange, maxInFlight, call>>
    /\ Tally(0)

\* getPinHash completes: the verifier is checked
UnlockHashRead(t) ==
    /\ tasks[t].op = "unlockWithPIN" /\ tasks[t].pc = "hash_read"
    /\ IF db.pinHash # Null /\ ~verifyPin(tasks[t].pin, db.pinHash)
         THEN /\ tasks' = [tasks EXCEPT ![t].pc = "rf_read1", ![t].err = "Incorrect PIN"]
              /\ Tally(wrongChecked + 1)
         ELSE /\ tasks' = [tasks EXCEPT ![t].pc = "key_read"]
              /\ UNCHANGED wrongChecked
    /\ UNCHANGED <<db, memVars, now, failedSinceStart, failedSinceSetup, lastChange, maxInFlight, call>>
    /\ ret' = NoRet

\* the operations that share the tail of an unlock: the key read, the
\* mnemonic read, recordUnlock, startUnlockSession
UnlockOperations == {"unlockWithPIN", "unlockInsecure", "unlockWithWebAuthn"}

\* unlockInsecure that decrypts with the (empty) typed PIN instead of the
\* fixed constant: a fault C19 tells from the code
UnlockPassword_TypedPin(t) == tasks[t].pin

\* the password an unlock decrypts with
UnlockPassword(t) ==
    IF tasks[t].op = "unlockInsecure" THEN INSECURE_STORAGE_KEY
    ELSE IF tasks[t].op = "unlockWithWebAuthn" THEN tasks[t].ek
    ELSE tasks[t].pin

\* getEncryptedKey completes: the envelope is decrypted
UnlockKeyRead(t) ==
    /\ tasks[t].op \in UnlockOperations /\ tasks[t].pc = "key_read"
    /\ IF db.encryptedKey = Null
         THEN /\ ret' = [Failure(ResultOp(t), "No encrypted key found")
                           EXCEPT !.pin = tasks[t].pin,
                                  !.counterReset = tasks[t].reset]
              /\ tasks' = [tasks EXCEPT ![t] = Idle]
              /\ UNCHANGED wrongChecked
         ELSE LET r == decryptPrivateKeyNip49(db.encryptedKey, UnlockPassword(t))
              IN  IF r.ok
                    THEN /\ tasks' = [tasks EXCEPT ![t].pc = "mn_read",
                                         ![t].decrypted = TRUE,
                                         ![t].dk = privateKeyToKeyPair(r.value)]
                         /\ ret' = NoRet
                         /\ UNCHANGED wrongChecked
                  ELSE IF tasks[t].op = "unlockWithPIN"
                    THEN /\ tasks' = [tasks EXCEPT ![t].pc = "rf_read1",
                                         ![t].decrypted = TRUE, ![t].err = r.error,
                                         ![t].caught = TRUE]
                         /\ ret' = NoRet
                         /\ Tally(wrongChecked + 1)
                  ELSE /\ ret' = [Failure(tasks[t].op, r.error)
                                    EXCEPT !.decryptAttempted = TRUE]
                       /\ tasks' = [tasks EXCEPT ![t] = Idle]
                       /\ UNCHANGED wrongChecked
    /\ UNCHANGED <<db, memVars, now, failedSinceStart, failedSinceSetup, lastChange, maxInFlight, call>>

\* an unlock that fails when the stored mnemonic does not decrypt: a fault
\* C18 tells from the code
UnlockMnemonicRead_Strict(t) ==
    /\ tasks[t].op \in UnlockOperations /\ tasks[t].pc = "mn_read"
    /\ LET r == IF db.encryptedMnemonic # Null
                  THEN decryptMnemonicNip49(db.encryptedMnemonic, UnlockPassword(t))
                  ELSE [ok |-> TRUE, value |-> Null]
       IN  IF r.ok
             THEN /\ tasks' = [tasks EXCEPT ![t].pc = "ru_read",
                                            ![t].dk = [@ EXCEPT !.mnemonic = r.value]]
                  /\ ret' = NoRet
             ELSE /\ ret' = Failure(ResultOp(t), r.error)
                  /\ tasks' = [tasks EXCEPT ![t] = Idle]
    /\ UNCHANGED <<db, memVars, now, failedSinceStart, failedSinceSetup, lastChange, wrongChecked, maxInFlight, call>>

\* getEncryptedMnemonic completes; recordUnlock builds its update and reads
UnlockMnemonicRead(t) ==
    /\ tasks[t].op \in UnlockOperations /\ tasks[t].pc = "mn_read"
    /\ LET r == IF db.encryptedMnemonic # Null
                  THEN decryptMnemonicNip49(db.encryptedMnemonic, UnlockPassword(t))
                  ELSE [ok |-> FALSE, error |-> ""]
       IN  tasks' = [tasks EXCEPT
                       ![t].pc = "ru_read",
                       ![t].dk = IF r.ok THEN [@ EXCEPT !.mnemonic = r.value] ELSE @]
    /\ UNCHANGED <<db, memVars, now, failedSinceStart, failedSinceSetup, lastChange, wrongChecked, maxInFlight, call>>
    /\ ret' = NoRet

\* changePIN(oldPin, newPin, newPinLength), up to the read of the
\* checkRateLimit of its unlockWithPIN(oldPin)
ChangePINCall(t, oldPin, newPin, newPinLength) ==
    /\ CanStart(t)
    /\ IF ~isValidPIN(newPin, newPinLength)
         THEN /\ ret' = [Failure("changePIN", "New PIN must be exactly N digits")
                           EXCEPT !.pin = newPin]
              /\ UNCHANGED tasks
         ELSE IF securityState.authMethod # "pin"
           THEN /\ ret' = [Failure("changePIN", "PIN authentication is not set up")
                             EXCEPT !.pin = oldPin]
                /\ UNCHANGED tasks
         ELSE /\ tasks' = [tasks EXCEPT ![t] =
                    [Idle EXCEPT !.op = "unlockWithPIN", !.pc = "rl_read",
                                 !.pin = oldPin, !.started = now,
                                 !.caller = "changePIN", !.oldPin = oldPin,
                                 !.newPin = newPin, !.newLen = newPinLength]]
              /\ ret' = NoRet
    /\ UNCHANGED <<db, memVars, now, failedSinceStart, failedSinceSetup, lastChange, wrongChecked, maxInFlight, call>>

\* changePIN after its unlockWithPIN succeeded: setupPINAuth is called with
\* the key and the mnemonic of the unlock result, up to the read of
\* storeEncryptedKey
ChangePINUnlocked(t) ==
    /\ tasks' = [tasks EXCEPT ![t] =
            [Idle EXCEPT !.op = "setupPINAuth", !.pc = "sp_key_read",
                         !.key = tasks[t].dk.privateKeyHex,
                         !.pin = tasks[t].newPin, !.len = tasks[t].newLen,
                         !.mn = tasks[t].dk.mnemonic, !.started = tasks[t].started,
                         !.caller = "changePIN", !.oldPin = tasks[t].oldPin]]
    /\ ret' = NoRet

\* recordUnlock that resets the count and keeps the time of the last failure:
\* a fault C3 tells from the code
UnlockRecorded_CountOnly(t) ==
    /\ tasks[t].op \in UnlockOperations /\ tasks[t].pc = "ru_write"
    /\ db' = updateStorage(t, [preferences |-> [failedPinAttempts |-> 0]])
    /\ SetMem(startUnlockSession(Mem, tasks[t].dk, now))
    /\ ret' = [Success(tasks[t].op, tasks[t].dk)
                 EXCEPT !.decryptAttempted = TRUE, !.pin = tasks[t].pin,
                        !.counterReset = tasks[t].reset]
    /\ tasks' = [tasks EXCEPT ![t] = Idle]
    /\ UNCHANGED <<now, failedSinceStart, failedSinceSetup, lastChange, maxInFlight, call>>
    /\ Tally(0)

\* recordUnlock has written: the session starts and the key is returned
UnlockRecorded(t) ==
    /\ tasks[t].op \in UnlockOperations /\ tasks[t].pc = "ru_write"
    /\ db' = updateStorage(t,
                [preferences |-> [failedPinAttempts |-> 0,
                                  lastFailedAttemptAt |-> 0]])
    /\ SetMem(startUnlockSession(Mem, tasks[t].dk, now))
    /\ IF tasks[t].caller = "changePIN"
         THEN ChangePINUnlocked(t)
         ELSE /\ ret' = [Success(tasks[t].op, tasks[t].dk)
                           EXCEPT !.decryptAttempted = TRUE, !.pin = tasks[t].pin,
                                  !.counterReset = tasks[t].reset]
              /\ tasks' = [tasks EXCEPT ![t] = Idle]
    /\ UNCHANGED <<now, failedSinceStart, failedSinceSetup, lastChange, maxInFlight, call>>
    /\ Tally(0)

\* recordFailedPinAttempt that stores the count it read: a fault C5 tells
\* from the code
RecordFailedRead_NoIncrement(t) ==
    /\ tasks[t].op = "unlockWithPIN" /\ tasks[t].pc = "rf_read1"
    /\ tasks' = [tasks EXCEPT ![t].n = db.preferences.failedPinAttempts,
                              ![t].ts = now, ![t].pc = "rf_read2"]
    /\ UNCHANGED <<db, memVars, now, failedSinceStart, failedSinceSetup, lastChange, wrongChecked, maxInFlight, call>>
    /\ ret' = NoRet

\* recordFailedPinAttempt: its own read completes, the update is built
RecordFailedRead(t) ==
    /\ tasks[t].op = "unlockWithPIN" /\ tasks[t].pc = "rf_read1"
    /\ tasks' = [tasks EXCEPT ![t].n = db.preferences.failedPinAttempts + 1,
                              ![t].ts = now, ![t].pc = "rf_read2"]
    /\ UNCHANGED <<db, memVars, now, failedSinceStart, failedSinceSetup, lastChange, wrongChecked, maxInFlight, call>>
    /\ ret' = NoRet

\* recordFailedPinAttempt has written: unlockWithPIN returns the failure
RecordFailedWritten(t) ==
    /\ tasks[t].op = "unlockWithPIN" /\ tasks[t].pc = "rf_write"
    /\ db' = updateStorage(t,
                [preferences |-> [failedPinAttempts |-> tasks[t].n,
                                  lastFailedAttemptAt |-> tasks[t].ts]])
    /\ ret' = [Failure(ResultOp(t), tasks[t].err)
                 EXCEPT !.decryptAttempted = tasks[t].decrypted,
                        !.pin = tasks[t].pin,
                        !.counterReset = tasks[t].reset]
    /\ tasks' = [tasks EXCEPT ![t] = Idle]
    /\ failedSinceStart' = TRUE
    /\ failedSinceSetup' = TRUE
    /\ UNCHANGED <<memVars, now, lastChange, wrongChecked, maxInFlight, call>>

-----------------------------------------------------------------------------
(* storeInsecurely, unlockInsecure, updateSecurityPreferences *)

\* storeInsecurely(privateKeyHex, publicKeyHex, mnemonic), up to the read of
\* storeEncryptedKey
StoreInsecurelyCall(t, privateKeyHex, mnemonic) ==
    /\ CanStart(t)
    /\ tasks' = [tasks EXCEPT ![t] =
            [Idle EXCEPT !.op = "storeInsecurely", !.pc = "si_key_read",
                         !.key = privateKeyHex, !.mn = mnemonic, !.started = now]]
    /\ UNCHANGED <<db, memVars, now, failedSinceStart, failedSinceSetup, lastChange, wrongChecked, maxInFlight, call>>
    /\ ret' = NoRet

\* storeEncryptedKey has written
StoreInsecurelyKeyStored(t) ==
    /\ tasks[t].op = "storeInsecurely" /\ tasks[t].pc = "si_key_write"
    /\ db' = updateStorage(t,
                [encryptedKey |-> encryptPrivateKeyNip49(tasks[t].key,
                                     INSECURE_STORAGE_KEY, NIP49_FAST_LOGN),
                 publicKeyHex |-> privateKeyToPublicKey(tasks[t].key),
                 schemaVersion |-> CURRENT_SCHEMA_VERSION])
    /\ tasks' = [tasks EXCEPT ![t].pc =
                    IF tasks[t].mn # Null THEN "si_mn_read" ELSE "si_pref_read"]
    /\ lastChange' = Null
    /\ UNCHANGED wrongChecked
    /\ UNCHANGED <<memVars, now, failedSinceStart, failedSinceSetup, maxInFlight, call>>
    /\ ret' = NoRet

\* storeEncryptedMnemonic has written
StoreInsecurelyMnemonicStored(t) ==
    /\ tasks[t].op = "storeInsecurely" /\ tasks[t].pc = "si_mn_write"
    /\ db' = updateStorage(t,
                [encryptedMnemonic |-> encryptMnemonicNip49(tasks[t].mn,
                                          INSECURE_STORAGE_KEY, NIP49_FAST_LOGN)])
    /\ tasks' = [tasks EXCEPT ![t].pc = "si_pref_read"]
    /\ UNCHANGED <<memVars, now, failedSinceStart, failedSinceSetup, lastChange, wrongChecked, maxInFlight, call>>
    /\ ret' = NoRet

\* updateSecurityPreferences({authMethod: 'none'}) has written: the state
\* update, setUnlockedState, the result
StoreInsecurelyFinish(t) ==
    /\ tasks[t].op = "storeInsecurely" /\ tasks[t].pc = "si_pref_write"
    /\ db' = updateStorage(t, [preferences |-> [authMethod |-> "none"]])
    /\ SetMem(setUnlockedState(
                [Mem EXCEPT !.securityState =
                    [securityState EXCEPT !.authMethod = "none",
                                          !.hasStoredKey = TRUE]],
                SetupKey(t), now))
    /\ ret' = Success("storeInsecurely", Null)
    /\ tasks' = [tasks EXCEPT ![t] = Idle]
    /\ failedSinceSetup' = FALSE
    /\ UNCHANGED <<now, failedSinceStart, lastChange, wrongChecked, maxInFlight, call>>

\* unlockInsecure(), up to the read of getEncryptedKey
UnlockInsecureCall(t) ==
    /\ CanStart(t)
    /\ tasks' = [tasks EXCEPT ![t] =
            [Idle EXCEPT !.op = "unlockInsecure", !.pc = "key_read", !.started = now]]
    /\ UNCHANGED <<db, memVars, now, failedSinceStart, failedSinceSetup, lastChange, wrongChecked, maxInFlight, call>>
    /\ ret' = NoRet

\* updateSecurityPreferences({autoLockEnabled}), up to its read
SetAutoLockCall(t, enabled) ==
    /\ CanStart(t)
    /\ tasks' = [tasks EXCEPT ![t] =
            [Idle EXCEPT !.op = "updateSecurityPreferences", !.pc = "pref_read",
                         !.enable = enabled, !.started = now]]
    /\ UNCHANGED <<db, memVars, now, failedSinceStart, failedSinceSetup, lastChange, wrongChecked, maxInFlight, call>>
    /\ ret' = NoRet

\* updateSecurityPreferences has written
SetAutoLockWritten(t) ==
    /\ tasks[t].op = "updateSecurityPreferences" /\ tasks[t].pc = "pref_write"
    /\ db' = updateStorage(t, [preferences |-> [autoLockEnabled |-> tasks[t].enable]])
    /\ tasks' = [tasks EXCEPT ![t] = Idle]
    /\ UNCHANGED <<memVars, now, failedSinceStart, failedSinceSetup, lastChange, wrongChecked, maxInFlight, call>>
    /\ ret' = NoRet

-----------------------------------------------------------------------------
(* services/crypto.ts: the WebAuthn ceremonies *)

\* how navigator.credentials.create() and .get() may end; NotAllowedError is
\* what the browser raises when the user cancels or the ceremony times out
CreateOutcomes == {"created", "NotAllowedError", "InvalidStateError"}
GetOutcomes == {"asserted", "NotAllowedError"}

\* the credentials an authenticator may mint, and the random secret
\* generateRandomEncryptionKey draws with each
CredentialIds == {1, 2, 3}
generateRandomEncryptionKey(n) ==
    IF n = 1 THEN <<"random-1">> ELSE IF n = 2 THEN <<"random-2">> ELSE <<"random-3">>

\* a credential id and a 256-bit random secret do not repeat: what is minted
\* differs from the credential the record holds and from the secret either
\* persisted envelope was sealed with
Fresh(n) ==
    /\ IF db.webauthnCredential = Null THEN TRUE
       ELSE db.webauthnCredential.credentialId # n
    /\ IF db.encryptedKey = Null THEN TRUE
       ELSE db.encryptedKey.password # generateRandomEncryptionKey(n)
    /\ IF db.encryptedMnemonic = Null THEN TRUE
       ELSE db.encryptedMnemonic.password # generateRandomEncryptionKey(n)

\* registerCredential: the registration, or the Error it throws
registerCredential(outcome, n) ==
    IF outcome = "created"
      THEN [ok |-> TRUE, value |-> [credentialId |-> n, counter |-> 0]]
    ELSE IF outcome = "NotAllowedError"
      THEN [ok |-> FALSE, error |-> "User cancelled the registration"]
    ELSE [ok |-> FALSE, error |-> "A credential already exists for this user"]

\* requestUserVerification that takes a ceremony that was cancelled for a
\* verification: a fault C17 tells from the code
requestUserVerification_Always(outcome) == TRUE

\* requestUserVerification: true only when the authenticator asserted
requestUserVerification(outcome) == outcome = "asserted"

\* registeredAt, name and createdAt are left out: no operation reads them
createStoredCredential(registration) == registration

-----------------------------------------------------------------------------
(* setupWebAuthnAuth, unlockWithWebAuthn, rotateWebAuthnCredential *)

\* setupWebAuthnAuth(privateKeyHex, publicKeyHex, mnemonic), up to the
\* ceremony of registerCredential
SetupWebAuthnAuthCall(t, privateKeyHex, mnemonic) ==
    /\ CanStart(t)
    /\ IF ~securityState.webauthnAvailable
         THEN /\ ret' = Failure("setupWebAuthnAuth",
                                "WebAuthn is not available on this device")
              /\ UNCHANGED tasks
         ELSE /\ tasks' = [tasks EXCEPT ![t] =
                    [Idle EXCEPT !.op = "setupWebAuthnAuth", !.pc = "ws_register",
                                 !.key = privateKeyHex, !.mn = mnemonic,
                                 !.started = now]]
              /\ ret' = NoRet
    /\ UNCHANGED <<db, memVars, now, failedSinceStart, failedSinceSetup, lastChange, wrongChecked, maxInFlight, call>>

\* the registration ceremony ends; on success the random key is drawn and
\* storeEncryptedKey reads
SetupWebAuthnAuthRegistered(t, outcome, n) ==
    /\ tasks[t].op = "setupWebAuthnAuth" /\ tasks[t].pc = "ws_register"
    /\ Fresh(n)
    /\ LET registration == registerCredential(outcome, n)
       IN  IF registration.ok
             THEN /\ tasks' = [tasks EXCEPT
                         ![t].cred = createStoredCredential(registration.value),
                         ![t].ek = generateRandomEncryptionKey(n),
                         ![t].pc = "ws_key_read"]
                  /\ ret' = NoRet
             ELSE /\ ret' = Failure("setupWebAuthnAuth", registration.error)
                  /\ tasks' = [tasks EXCEPT ![t] = Idle]
    /\ UNCHANGED <<db, memVars, now, failedSinceStart, failedSinceSetup, lastChange, wrongChecked, maxInFlight, call>>

\* storeEncryptedKey has written; storeWebAuthnCredential reads
SetupWebAuthnAuthKeyStored(t) ==
    /\ tasks[t].op = "setupWebAuthnAuth" /\ tasks[t].pc = "ws_key_write"
    /\ db' = updateStorage(t,
                [encryptedKey |-> encryptPrivateKeyNip49(tasks[t].key, tasks[t].ek,
                                                         NIP49_DEFAULT_LOGN),
                 publicKeyHex |-> privateKeyToPublicKey(tasks[t].key),
                 schemaVersion |-> CURRENT_SCHEMA_VERSION])
    /\ tasks' = [tasks EXCEPT ![t].pc = "ws_cred_read"]
    /\ lastChange' = Null
    /\ UNCHANGED wrongChecked
    /\ UNCHANGED <<memVars, now, failedSinceStart, failedSinceSetup, maxInFlight, call>>
    /\ ret' = NoRet

\* the tail of setupWebAuthnAuth: the state update, setUnlockedState, the result
SetupWebAuthnAuthFinish(t) ==
    /\ SetMem(setUnlockedState(
                [Mem EXCEPT !.securityState =
                    [securityState EXCEPT !.authMethod = "webauthn",
                                          !.hasStoredKey = TRUE]],
                SetupKey(t), now))
    /\ ret' = Success("setupWebAuthnAuth", Null)
    /\ tasks' = [tasks EXCEPT ![t] = Idle]
    /\ failedSinceSetup' = FALSE

\* storeWebAuthnCredential has written; storeEncryptedMnemonic reads if a
\* mnemonic was given
SetupWebAuthnAuthCredentialStored(t) ==
    /\ tasks[t].op = "setupWebAuthnAuth" /\ tasks[t].pc = "ws_cred_write"
    /\ db' = updateStorage(t,
                [webauthnCredential |-> tasks[t].cred,
                 webauthnEncryptionKey |-> [key |-> tasks[t].ek],
                 preferences |-> [authMethod |-> "webauthn"]])
    /\ IF tasks[t].mn # Null
         THEN /\ tasks' = [tasks EXCEPT ![t].pc = "ws_mn_read"]
              /\ UNCHANGED <<memVars, failedSinceSetup>>
              /\ ret' = NoRet
         ELSE SetupWebAuthnAuthFinish(t)
    /\ UNCHANGED <<now, failedSinceStart, lastChange, wrongChecked, maxInFlight, call>>

\* storeEncryptedMnemonic has written
SetupWebAuthnAuthMnemonicStored(t) ==
    /\ tasks[t].op = "setupWebAuthnAuth" /\ tasks[t].pc = "ws_mn_write"
    /\ db' = updateStorage(t,
                [encryptedMnemonic |-> encryptMnemonicNip49(tasks[t].mn, tasks[t].ek,
                                                            NIP49_DEFAULT_LOGN)])
    /\ SetupWebAuthnAuthFinish(t)
    /\ UNCHANGED <<now, failedSinceStart, lastChange, wrongChecked, maxInFlight, call>>

\* unlockWithWebAuthn(), up to the read of getWebAuthnCredential
UnlockWithWebAuthnCall(t) ==
    /\ CanStart(t)
    /\ IF securityState.authMethod # "webauthn"
         THEN /\ ret' = Failure("unlockWithWebAuthn",
                                "WebAuthn authentication is not set up")
              /\ UNCHANGED tasks
         ELSE /\ tasks' = [tasks EXCEPT ![t] =
                    [Idle EXCEPT !.op = "unlockWithWebAuthn", !.pc = "wu_cred_read",
                                 !.started = now]]
              /\ ret' = NoRet
    /\ UNCHANGED <<db, memVars, now, failedSinceStart, failedSinceSetup, lastChange, wrongChecked, maxInFlight, call>>

\* getWebAuthnCredential completes: the ceremony of requestUserVerification starts
UnlockWithWebAuthnCredentialRead(t) ==
    /\ tasks[t].op = "unlockWithWebAuthn" /\ tasks[t].pc = "wu_cred_read"
    /\ IF db.webauthnCredential = Null
         THEN /\ ret' = Failure("unlockWithWebAuthn", "No WebAuthn credential found")
              /\ tasks' = [tasks EXCEPT ![t] = Idle]
         ELSE /\ tasks' = [tasks EXCEPT ![t].cred = db.webauthnCredential,
                                        ![t].pc = "wu_verify"]
              /\ ret' = NoRet
    /\ UNCHANGED <<db, memVars, now, failedSinceStart, failedSinceSetup, lastChange, wrongChecked, maxInFlight, call>>

\* the assertion ceremony ends
UnlockWithWebAuthnVerified(t, outcome) ==
    /\ tasks[t].op = "unlockWithWebAuthn" /\ tasks[t].pc = "wu_verify"
    /\ IF requestUserVerification(outcome)
         THEN /\ tasks' = [tasks EXCEPT ![t].pc = "wu_ek_read"]
              /\ ret' = NoRet
         ELSE /\ ret' = Failure("unlockWithWebAuthn",
                                "Biometric verification failed or was cancelled")
              /\ tasks' = [tasks EXCEPT ![t] = Idle]
    /\ UNCHANGED <<db, memVars, now, failedSinceStart, failedSinceSetup, lastChange, wrongChecked, maxInFlight, call>>

\* getWebAuthnEncryptionKey completes
UnlockWithWebAuthnEncryptionKeyRead(t) ==
    /\ tasks[t].op = "unlockWithWebAuthn" /\ tasks[t].pc = "wu_ek_read"
    /\ IF db.webauthnEncryptionKey = Null
         THEN /\ ret' = Failure("unlockWithWebAuthn", "Encryption key not found")
              /\ tasks' = [tasks EXCEPT ![t] = Idle]
         ELSE /\ tasks' = [tasks EXCEPT ![t].ek = db.webauthnEncryptionKey.key,
                                        ![t].pc = "key_read"]
              /\ ret' = NoRet
    /\ UNCHANGED <<db, memVars, now, failedSinceStart, failedSinceSetup, lastChange, wrongChecked, maxInFlight, call>>

\* rotateWebAuthnCredential(), up to the read of getWebAuthnCredential
RotateWebAuthnCredentialCall(t) ==
    /\ CanStart(t)
    /\ IF securityState.authMethod # "webauthn"
         THEN /\ ret' = Failure("rotateWebAuthnCredential",
                                "WebAuthn authentication is not set up")
              /\ UNCHANGED tasks
         ELSE /\ tasks' = [tasks EXCEPT ![t] =
                    [Idle EXCEPT !.op = "rotateWebAuthnCredential",
                                 !.pc = "wr_cred_read", !.started = now,
                                 !.before = db]]
              /\ ret' = NoRet
    /\ UNCHANGED <<db, memVars, now, failedSinceStart, failedSinceSetup, lastChange, wrongChecked, maxInFlight, call>>

\* getWebAuthnCredential completes: the ceremony on the old credential starts
RotateWebAuthnCredentialCredentialRead(t) ==
    /\ tasks[t].op = "rotateWebAuthnCredential" /\ tasks[t].pc = "wr_cred_read"
    /\ IF db.webauthnCredential = Null
         THEN /\ ret' = Failure("rotateWebAuthnCredential",
                                "No WebAuthn credential found")
              /\ tasks' = [tasks EXCEPT ![t] = Idle]
         ELSE /\ tasks' = [tasks EXCEPT ![t].cred = db.webauthnCredential,
                                        ![t].pc = "wr_verify"]
              /\ ret' = NoRet
    /\ UNCHANGED <<db, memVars, now, failedSinceStart, failedSinceSetup, lastChange, wrongChecked, maxInFlight, call>>

\* the assertion ceremony on the old credential ends
RotateWebAuthnCredentialVerified(t, outcome) ==
    /\ tasks[t].op = "rotateWebAuthnCredential" /\ tasks[t].pc = "wr_verify"
    /\ IF requestUserVerification(outcome)
         THEN /\ tasks' = [tasks EXCEPT ![t].pc = "wr_ek_read"]
              /\ ret' = NoRet
         ELSE /\ ret' = Failure("rotateWebAuthnCredential",
                                "Biometric verification failed or was cancelled")
              /\ tasks' = [tasks EXCEPT ![t] = Idle]
    /\ UNCHANGED <<db, memVars, now, failedSinceStart, failedSinceSetup, lastChange, wrongChecked, maxInFlight, call>>

\* getWebAuthnEncryptionKey completes
RotateWebAuthnCredentialEncryptionKeyRead(t) ==
    /\ tasks[t].op = "rotateWebAuthnCredential" /\ tasks[t].pc = "wr_ek_read"
    /\ IF db.webauthnEncryptionKey = Null
         THEN /\ ret' = Failure("rotateWebAuthnCredential", "Encryption key not found")
              /\ tasks' = [tasks EXCEPT ![t] = Idle]
         ELSE /\ tasks' = [tasks EXCEPT ![t].ek = db.webauthnEncryptionKey.key,
                                        ![t].pc = "wr_key_read"]
              /\ ret' = NoRet
    /\ UNCHANGED <<db, memVars, now, failedSinceStart, failedSinceSetup, lastChange, wrongChecked, maxInFlight, call>>

\* getEncryptedKey completes: the envelope is decrypted with the old secret
RotateWebAuthnCredentialKeyRead(t) ==
    /\ tasks[t].op = "rotateWebAuthnCredential" /\ tasks[t].pc = "wr_key_read"
    /\ IF db.encryptedKey = Null
         THEN /\ ret' = Failure("rotateWebAuthnCredential", "No encrypted key found")
              /\ tasks' = [tasks EXCEPT ![t] = Idle]
         ELSE LET r == decryptPrivateKeyNip49(db.encryptedKey, tasks[t].ek)
              IN  IF r.ok
                    THEN /\ tasks' = [tasks EXCEPT ![t].key = r.value,
                                                   ![t].pc = "wr_mn_read"]
                         /\ ret' = NoRet
                    ELSE /\ ret' = Failure("rotateWebAuthnCredential", r.error)
                         /\ tasks' = [tasks EXCEPT ![t] = Idle]
    /\ UNCHANGED <<db, memVars, now, failedSinceStart, failedSinceSetup, lastChange, wrongChecked, maxInFlight, call>>

\* getEncryptedMnemonic completes
RotateWebAuthnCredentialMnemonicRead(t) ==
    /\ tasks[t].op = "rotateWebAuthnCredential" /\ tasks[t].pc = "wr_mn_read"
    /\ LET r == IF db.encryptedMnemonic # Null
                  THEN decryptMnemonicNip49(db.encryptedMnemonic, tasks[t].ek)
                  ELSE [ok |-> FALSE, error |-> ""]
       IN  tasks' = [tasks EXCEPT ![t].mn = IF r.ok THEN r.value ELSE Null,
                                  ![t].pc = "wr_pub_read"]
    /\ UNCHANGED <<db, memVars, now, failedSinceStart, failedSinceSetup, lastChange, wrongChecked, maxInFlight, call>>
    /\ ret' = NoRet

\* getPublicKey completes: the ceremony of registerCredential starts
RotateWebAuthnCredentialPublicKeyRead(t) ==
    /\ tasks[t].op = "rotateWebAuthnCredential" /\ tasks[t].pc = "wr_pub_read"
    /\ IF db.publicKeyHex = Null
         THEN /\ ret' = Failure("rotateWebAuthnCredential", "Public key not found")
              /\ tasks' = [tasks EXCEPT ![t] = Idle]
         ELSE /\ tasks' = [tasks EXCEPT ![t].pub = db.publicKeyHex,
                                        ![t].pc = "wr_register"]
              /\ ret' = NoRet
    /\ UNCHANGED <<db, memVars, now, failedSinceStart, failedSinceSetup, lastChange, wrongChecked, maxInFlight, call>>

\* the registration ceremony ends; on success the new random key is drawn and
\* storeEncryptedKey reads
RotateWebAuthnCredentialRegistered(t, outcome, n) ==
    /\ tasks[t].op = "rotateWebAuthnCredential" /\ tasks[t].pc = "wr_register"
    /\ Fresh(n)
    /\ LET registration == registerCredential(outcome, n)
       IN  IF registration.ok
             THEN /\ tasks' = [tasks EXCEPT
                         ![t].cred = createStoredCredential(registration.value),
                         ![t].ek = generateRandomEncryptionKey(n),
                         ![t].pc = "wr_skey_read"]
                  /\ ret' = NoRet
             ELSE /\ ret' = Failure("rotateWebAuthnCredential", registration.error)
                  /\ tasks' = [tasks EXCEPT ![t] = Idle]
    /\ UNCHANGED <<db, memVars, now, failedSinceStart, failedSinceSetup, lastChange, wrongChecked, maxInFlight, call>>

\* storeEncryptedKey has written; storeWebAuthnCredential reads
RotateWebAuthnCredentialKeyStored(t) ==
    /\ tasks[t].op = "rotateWebAuthnCredential" /\ tasks[t].pc = "wr_skey_write"
    /\ db' = updateStorage(t,
                [encryptedKey |-> encryptPrivateKeyNip49(tasks[t].key, tasks[t].ek,
                                                         NIP49_DEFAULT_LOGN),
                 publicKeyHex |-> tasks[t].pub,
                 schemaVersion |-> CURRENT_SCHEMA_VERSION])
    /\ tasks' = [tasks EXCEPT ![t].pc = "wr_scred_read"]
    /\ lastChange' = Null
    /\ UNCHANGED wrongChecked
    /\ UNCHANGED <<memVars, now, failedSinceStart, failedSinceSetup, maxInFlight, call>>
    /\ ret' = NoRet

\* storeWebAuthnCredential has written; storeEncryptedMnemonic reads if the
\* mnemonic was decrypted
RotateWebAuthnCredentialCredentialStored(t) ==
    /\ tasks[t].op = "rotateWebAuthnCredential" /\ tasks[t].pc = "wr_scred_write"
    /\ db' = updateStorage(t,
                [webauthnCredential |-> tasks[t].cred,
                 webauthnEncryptionKey |-> [key |-> tasks[t].ek],
                 preferences |-> [authMethod |-> "webauthn"]])
    /\ IF tasks[t].mn # Null
         THEN /\ tasks' = [tasks EXCEPT ![t].pc = "wr_smn_read"]
              /\ ret' = NoRet
         ELSE /\ ret' = Success("rotateWebAuthnCredential", Null)
              /\ tasks' = [tasks EXCEPT ![t] = Idle]
    /\ UNCHANGED <<memVars, now, failedSinceStart, failedSinceSetup, lastChange, wrongChecked, maxInFlight, call>>

\* storeEncryptedMnemonic has written
RotateWebAuthnCredentialMnemonicStored(t) ==
    /\ tasks[t].op = "rotateWebAuthnCredential" /\ tasks[t].pc = "wr_smn_write"
    /\ db' = updateStorage(t,
                [encryptedMnemonic |-> encryptMnemonicNip49(tasks[t].mn, tasks[t].ek,
                                                            NIP49_DEFAULT_LOGN)])
    /\ ret' = Success("rotateWebAuthnCredential", Null)
    /\ tasks' = [tasks EXCEPT ![t] = Idle]
    /\ UNCHANGED <<memVars, now, failedSinceStart, failedSinceSetup, lastChange, wrongChecked, maxInFlight, call>>

-----------------------------------------------------------------------------
(* Session: lockSession, getUnlockedKey, extendUnlockSession, the timer *)

LockSession ==
    /\ SetMem(lockSession(Mem))
    /\ UNCHANGED <<db, now, failedSinceStart, failedSinceSetup, lastChange, wrongChecked, tasks, maxInFlight, call>>
    /\ ret' = NoRet

\* getUnlockedKey that trusts the timer and does not look at the expiry: a
\* fault C12 tells from the code
getUnlockedKey_NoExpiryCheck(m, t) ==
    IF ~m.securityState.isUnlocked
      THEN [key |-> Null, mem |-> m]
      ELSE [key |-> m.currentUnlockedKey, mem |-> m]

\* what getUnlockedKey returns and the state it leaves
getUnlockedKey(m, t) ==
    IF ~m.securityState.isUnlocked
      THEN [key |-> Null, mem |-> m]
    ELSE IF m.securityState.unlockExpiresAt # 0 /\ t > m.securityState.unlockExpiresAt
      THEN [key |-> Null, mem |-> lockSession(m)]
    ELSE [key |-> m.currentUnlockedKey, mem |-> m]

GetUnlockedKey ==
    /\ LET r == getUnlockedKey(Mem, now)
       IN  /\ SetMem(r.mem)
           /\ ret' = [NoRet EXCEPT !.op = "getUnlockedKey", !.key = r.key,
                                   !.success = (r.key # Null),
                                   !.lockedNow = (r.mem # Mem)]
    /\ UNCHANGED <<db, now, failedSinceStart, failedSinceSetup, lastChange, wrongChecked, tasks, maxInFlight, call>>

\* extendUnlockSession that installs the new timer without clearing the old
\* one: a fault C14 tells from the code
extendUnlockSession_NoClear(m, t) ==
    IF ~m.securityState.isUnlocked \/ m.currentUnlockedKey = Null
      THEN m
      ELSE [securityState |-> [m.securityState EXCEPT
                                 !.unlockExpiresAt = t + UNLOCK_SESSION_DURATION],
            currentUnlockedKey |-> m.currentUnlockedKey,
            lockedKeyObject |-> m.lockedKeyObject,
            unlockTimeoutHandle |-> t + UNLOCK_SESSION_DURATION,
            timers |-> m.timers \cup {t + UNLOCK_SESSION_DURATION}]

extendUnlockSession(m, t) ==
    IF ~m.securityState.isUnlocked \/ m.currentUnlockedKey = Null
      THEN m
      ELSE [securityState |-> [m.securityState EXCEPT
                                 !.unlockExpiresAt = t + UNLOCK_SESSION_DURATION],
            currentUnlockedKey |-> m.currentUnlockedKey,
            lockedKeyObject |-> m.lockedKeyObject,
            unlockTimeoutHandle |-> t + UNLOCK_SESSION_DURATION,
            timers |-> (IF m.unlockTimeoutHandle # 0
                          THEN clearTimeout(m.timers, m.unlockTimeoutHandle)
                          ELSE m.timers) \cup {t + UNLOCK_SESSION_DURATION}]

ExtendUnlockSession ==
    /\ SetMem(extendUnlockSession(Mem, now))
    /\ UNCHANGED <<db, now, failedSinceStart, failedSinceSetup, lastChange, wrongChecked, tasks, maxInFlight, call>>
    /\ ret' = NoRet

\* a pending session timer is due: its callback calls lockSession
TimerFire ==
    /\ \E deadline \in timers :
         /\ deadline <= now
         /\ SetMem(lockSession([Mem EXCEPT !.timers = timers \ {deadline}]))
    /\ UNCHANGED <<db, now, failedSinceStart, failedSinceSetup, lastChange, wrongChecked, tasks, maxInFlight, call>>
    /\ ret' = NoRet

-----------------------------------------------------------------------------
(* The stored key envelope is altered outside the program *)

TamperEncryptedKey ==
    /\ db.encryptedKey # Null
    /\ db.encryptedKey.intact
    /\ db' = [db EXCEPT !.encryptedKey.intact = FALSE]
    /\ UNCHANGED <<memVars, now, failedSinceStart, failedSinceSetup, lastChange, wrongChecked, tasks, maxInFlight, call>>
    /\ ret' = NoRet

-----------------------------------------------------------------------------
(* IndexedDB requests that fail *)

\* the reads a call awaits outside updateStorage
PlainReadPcs == {"rl_read", "hash_read", "key_read", "mn_read", "rf_read1",
                 "is_read", "wu_cred_read", "wu_ek_read", "wr_cred_read",
                 "wr_ek_read", "wr_key_read", "wr_mn_read", "wr_pub_read",
                 "em_mn_read", "em_ek_read"}

WritePcs == {WritePc(pc) : pc \in ReadPcs}

\* the awaits of unlockWithPIN that no try block of unlockWithPIN covers:
\* checkRateLimit, and recordFailedPinAttempt inside the catch handler
OutsideTry(t) ==
    \/ tasks[t].pc \in {"rl_read", "reset_read", "reset_write"}
    \/ tasks[t].caught

\* the request the call in slot t awaits rejects with Error(message): the
\* exception travels to the nearest catch handler, or out of the operation
Throw(t, message) ==
    /\ IF tasks[t].op = "unlockWithPIN" /\ ~OutsideTry(t)
         THEN \* catch (error) { await recordFailedPinAttempt(); ... }
              /\ tasks' = [tasks EXCEPT ![t].pc = "rf_read1", ![t].err = message,
                                        ![t].caught = TRUE]
              /\ ret' = NoRet
       ELSE IF tasks[t].op = "unlockWithPIN" /\ tasks[t].caller = "changePIN"
         THEN \* the rejection of unlockWithPIN is caught by changePIN
              /\ tasks' = [tasks EXCEPT ![t] = Idle]
              /\ ret' = [Failure("changePIN", message) EXCEPT !.pin = tasks[t].pin]
       ELSE IF tasks[t].op \in {"unlockWithPIN", "updateSecurityPreferences"}
         THEN /\ tasks' = [tasks EXCEPT ![t] = Idle]
              /\ ret' = [Rejected(tasks[t].op, message) EXCEPT !.pin = tasks[t].pin]
       ELSE IF tasks[t].op = "initializeSecurity"
         THEN \* logged; initializeSecurity resolves
              /\ tasks' = [tasks EXCEPT ![t] = Idle]
              /\ ret' = Success("initializeSecurity", Null)
       ELSE \* the catch handler of the operation returns the failure result
            /\ tasks' = [tasks EXCEPT ![t] = Idle]
            /\ ret' = [Failure(ResultOp(t), message) EXCEPT !.pin = tasks[t].pin]
    /\ securityState' = IF tasks[t].op = "initializeSecurity"
                           THEN [securityState EXCEPT !.isInitializing = FALSE]
                           ELSE securityState
    /\ UNCHANGED <<db, currentUnlockedKey, lockedKeyObject, unlockTimeoutHandle,
                   timers, now, failedSinceStart, failedSinceSetup, lastChange, wrongChecked,
                   maxInFlight, call>>

\* request.onerror of the store.get of readStorage: the promise readStorage
\* returned rejects (its try block has already been left)
ReadStorageFails(t) ==
    /\ tasks[t].pc \in PlainReadPcs \cup ReadPcs
    /\ Throw(t, "Failed to read secure storage")

\* request.onerror of the store.put of writeStorage: nothing is written
WriteStorageFails(t) ==
    /\ tasks[t].pc \in WritePcs
    /\ Throw(t, "Failed to write secure storage")

\* getStore throws inside the try block of readStorage: the catch handler
\* returns createDefaultSchema(), which updateStorage takes for the record
updateStorageReadFallsBack(t) ==
    /\ tasks[t].pc \in ReadPcs
    /\ tasks' = [tasks EXCEPT ![t].cur = createDefaultSchema,
                              ![t].pc = WritePc(tasks[t].pc)]
    /\ UNCHANGED <<db, memVars, now, failedSinceStart, failedSinceSetup, lastChange, wrongChecked, maxInFlight, call>>
    /\ ret' = NoRet

-----------------------------------------------------------------------------
(* utils/nip49.ts called on its own: envelopes are sealed, handed around as *)
(* strings and opened *)

Passwords == {<<"1">>, <<FullwidthOne>>, <<"2">>}
Plaintexts == {hexToBytes(k) : k \in Keys}
MnemonicTexts ==
    {[tag |-> "mnemonic", words |-> w] :
        w \in {<<109, 49>>, <<109, LoneSurrogate>>, <<ByteOrderMark, 109>>}}
WorkFactors == {NIP49_FAST_LOGN, NIP49_DEFAULT_LOGN}
\* version bytes an envelope string may carry
Versions == {1, 2, 3}

NoResult == [ok |-> FALSE, error |-> "none", kdf |-> FALSE]

\* encrypt(privateKey, password, logn)
EncryptCall(privateKey, password, logn) ==
    /\ call' = [fn |-> "nip49", step |-> "encrypt", kind |-> "key",
                password |-> password, logn |-> logn,
                key |-> privateKey, mnemonic |-> Null,
                envelope |-> encrypt(privateKey, password, logn),
                altered |-> FALSE, decoder |-> "none", typed |-> <<>>,
                result |-> NoResult, prev |-> NoResult, prevDecoder |-> "none"]
    /\ UNCHANGED <<db, memVars, now, failedSinceStart, failedSinceSetup,
                   lastChange, wrongChecked, tasks, ret, maxInFlight>>

\* encryptMnemonicNip49(mnemonic, password, logn)
EncryptMnemonicCall(mnemonic, password, logn) ==
    /\ call' = [fn |-> "nip49", step |-> "encrypt", kind |-> "mnemonic",
                password |-> password, logn |-> logn,
                key |-> <<>>, mnemonic |-> mnemonic,
                envelope |-> encryptMnemonicNip49(mnemonic, password, logn),
                altered |-> FALSE, decoder |-> "none", typed |-> <<>>,
                result |-> NoResult, prev |-> NoResult, prevDecoder |-> "none"]
    /\ UNCHANGED <<db, memVars, now, failedSinceStart, failedSinceSetup,
                   lastChange, wrongChecked, tasks, ret, maxInFlight>>

\* the envelope string is rewritten outside the program: under the other
\* prefix, with another version byte, or with a ciphertext byte changed
AlterEnvelope(how, version) ==
    /\ call.fn = "nip49"
    /\ \/ /\ how = "prefix"
          /\ call' = [call EXCEPT !.step = "alter", !.altered = TRUE,
                         !.envelope.hrp = IF @ = "ncryptsec" THEN "ncryptmnem"
                                          ELSE "ncryptsec"]
       \/ /\ how = "version"
          /\ version # call.envelope.version
          /\ call' = [call EXCEPT !.step = "alter", !.altered = TRUE,
                                  !.envelope.version = version]
       \/ /\ how = "ciphertext"
          /\ call.envelope.intact
          /\ call' = [call EXCEPT !.step = "alter", !.altered = TRUE,
                                  !.envelope.intact = FALSE]
    /\ UNCHANGED <<db, memVars, now, failedSinceStart, failedSinceSetup,
                   lastChange, wrongChecked, tasks, ret, maxInFlight>>

\* decrypt(envelope, password)
DecryptCall(password) ==
    /\ call.fn = "nip49"
    /\ call' = [call EXCEPT !.step = "decrypt", !.decoder = "decrypt",
                            !.typed = password,
                            !.result = decrypt(call.envelope, password),
                            !.prev = call.result,
                            !.prevDecoder = call.decoder]
    /\ UNCHANGED <<db, memVars, now, failedSinceStart, failedSinceSetup,
                   lastChange, wrongChecked, tasks, ret, maxInFlight>>

\* decryptMnemonicNip49(envelope, password)
DecryptMnemonicCall(password) ==
    /\ call.fn = "nip49"
    /\ call' = [call EXCEPT !.step = "decrypt", !.decoder = "decryptMnemonicNip49",
                            !.typed = password,
                            !.result = decryptMnemonicNip49(call.envelope, password),
                            !.prev = call.result,
                            !.prevDecoder = call.decoder]
    /\ UNCHANGED <<db, memVars, now, failedSinceStart, failedSinceSetup,
                   lastChange, wrongChecked, tasks, ret, maxInFlight>>

-----------------------------------------------------------------------------
(* Specifications *)

InitCommon ==
    /\ db = createDefaultSchema
    /\ securityState = InitialSecurityState
    /\ currentUnlockedKey = Null
    /\ lockedKeyObject = Null
    /\ unlockTimeoutHandle = 0
    /\ timers = {}
    /\ now = 1
    /\ failedSinceStart = FALSE
    /\ failedSinceSetup = FALSE
    /\ lastChange = Null
    /\ wrongChecked = 0
    /\ tasks = [t \in TaskIds |-> Idle]
    /\ ret = NoRet
    /\ call = NoCall

\* one asynchronous call at a time (the single-actor use of the store)
Init == InitCommon /\ maxInFlight = 1

Clock == TickFine \/ TickCoarse

Process ==
    \/ Restart
    \/ \E t \in TaskIds :
        \/ InitializeSecurityCall(t)
        \/ InitializeSecurityAvail(t)
        \/ InitializeSecurityLoad(t)

StorageOps == \E t \in TaskIds : updateStorageRead(t)

\* setupPINAuth on the inputs given
SetupOps(keys, pins, mnemonics) ==
    \E t \in TaskIds :
        \/ \E k \in keys, p \in pins, l \in PinLengths, m \in mnemonics :
              SetupPINAuthCall(t, k, p, l, m)
        \/ SetupPINAuthKeyStored(t)
        \/ SetupPINAuthHashStored(t)

\* unlockWithPIN on the PINs given, and the unlock steps unlockInsecure shares
UnlockOps(pins) ==
    \E t \in TaskIds :
        \/ \E p \in pins : UnlockWithPINCall(t, p)
        \/ UnlockRateLimitChecked(t)
        \/ UnlockHashRead(t)
        \/ UnlockKeyRead(t)
        \/ UnlockMnemonicRead(t)
        \/ UnlockRecorded(t)

\* the failure path of unlockWithPIN
FailureOps ==
    \E t \in TaskIds :
        \/ RecordFailedRead(t)
        \/ RecordFailedWritten(t)

\* the reset of an expired lockout
ExpiryOps == \E t \in TaskIds : UnlockCounterReset(t)

PinOps(keys, pins, mnemonics) ==
    \/ StorageOps
    \/ SetupOps(keys, pins, mnemonics)
    \/ UnlockOps(pins)
    \/ FailureOps
    \/ ExpiryOps

\* the last write of a setupPINAuth that was given a mnemonic
MnemonicOps == \E t \in TaskIds : SetupPINAuthMnemonicStored(t)

\* the operations of the no-authentication mode
InsecureOps(keys, mnemonics) ==
    \E t \in TaskIds :
        \/ \E k \in keys, m \in mnemonics : StoreInsecurelyCall(t, k, m)
        \/ StoreInsecurelyKeyStored(t)
        \/ StoreInsecurelyMnemonicStored(t)
        \/ StoreInsecurelyFinish(t)
        \/ UnlockInsecureCall(t)

SessionOps ==
    \/ LockSession
    \/ GetUnlockedKey
    \/ ExtendUnlockSession
    \/ TimerFire

PrefOps ==
    \E t \in TaskIds :
        \/ \E enabled \in BOOLEAN : SetAutoLockCall(t, enabled)
        \/ SetAutoLockWritten(t)

OneKey == {<<"0", "a">>}
TwoPins == {PinA, PinB}

\* PIN setup and unlock, one call at a time
Next ==
    \/ Clock
    \/ Process
    \/ PinOps(Keys, Pins, {Null})

Spec == Init /\ [][Next]_vars

\* every way to store a key and to unlock it, one call at a time
NextUnlock ==
    \/ Clock
    \/ Process
    \/ PinOps(OneKey, TwoPins, {Null})
    \/ InsecureOps(OneKey, Mnemonics \ {Null})

SpecUnlock == Init /\ [][NextUnlock]_vars

\* PIN setup and unlock with a stored envelope that may be corrupted
NextTamper ==
    \/ Clock
    \/ Process
    \/ PinOps(OneKey, Pins, {Null})
    \/ TamperEncryptedKey

SpecTamper == Init /\ [][NextTamper]_vars

\* two calls in flight at once, within one instant: nothing in the store
\* stops a caller from starting a call while another awaits storage
InitConcurrent == InitCommon /\ maxInFlight = 2

NextConcurrent ==
    \/ StorageOps
    \/ SetupOps(OneKey, {PinA}, Mnemonics \ {Null})
    \/ MnemonicOps
    \/ UnlockOps(TwoPins)
    \/ FailureOps

SpecConcurrent == InitConcurrent /\ [][NextConcurrent]_vars

\* sessions: what opens, extends and ends them (the PIN is always right)
NextSession ==
    \/ Clock
    \/ Process
    \/ StorageOps
    \/ SetupOps(OneKey, {PinA}, {Null})
    \/ UnlockOps({PinA})
    \/ SessionOps
    \/ PrefOps

SpecSession == Init /\ [][NextSession]_vars

\* sessions on keys with and without a mnemonic, locked by hand; the clock
\* stands still
NextLock ==
    \/ StorageOps
    \/ SetupOps(Keys, {PinA}, Mnemonics)
    \/ MnemonicOps
    \/ UnlockOps({PinA})
    \/ LockSession
    \/ GetUnlockedKey

SpecLock == Init /\ [][NextLock]_vars

\* changePIN on the inputs given
ChangeOps(oldPins, newPins) ==
    \E t \in TaskIds : \E o \in oldPins, p \in newPins, l \in PinLengths :
        ChangePINCall(t, o, p, l)

\* PIN setup with and without a mnemonic, PIN change and unlock; the clock
\* stands still
NextChange ==
    \/ Process
    \/ StorageOps
    \/ SetupOps(Keys, TwoPins, Mnemonics)
    \/ MnemonicOps
    \/ ChangeOps(TwoPins, Pins)
    \/ UnlockOps(TwoPins)
    \/ FailureOps

SpecChange == Init /\ [][NextChange]_vars

\* the WebAuthn operations on the inputs given
WebAuthnSetupOps(keys, mnemonics) ==
    \E t \in TaskIds :
        \/ \E k \in keys, m \in mnemonics : SetupWebAuthnAuthCall(t, k, m)
        \/ \E outcome \in CreateOutcomes, n \in CredentialIds :
              SetupWebAuthnAuthRegistered(t, outcome, n)
        \/ SetupWebAuthnAuthKeyStored(t)
        \/ SetupWebAuthnAuthCredentialStored(t)
        \/ SetupWebAuthnAuthMnemonicStored(t)

WebAuthnUnlockOps ==
    \E t \in TaskIds :
        \/ UnlockWithWebAuthnCall(t)
        \/ UnlockWithWebAuthnCredentialRead(t)
        \/ \E outcome \in GetOutcomes : UnlockWithWebAuthnVerified(t, outcome)
        \/ UnlockWithWebAuthnEncryptionKeyRead(t)

\* the tail the unlock operations share
UnlockTailOps ==
    \E t \in TaskIds :
        \/ UnlockKeyRead(t)
        \/ UnlockMnemonicRead(t)
        \/ UnlockRecorded(t)

WebAuthnRotateOps ==
    \E t \in TaskIds :
        \/ RotateWebAuthnCredentialCall(t)
        \/ RotateWebAuthnCredentialCredentialRead(t)
        \/ \E outcome \in GetOutcomes : RotateWebAuthnCredentialVerified(t, outcome)
        \/ RotateWebAuthnCredentialEncryptionKeyRead(t)
        \/ RotateWebAuthnCredentialKeyRead(t)
        \/ RotateWebAuthnCredentialMnemonicRead(t)
        \/ RotateWebAuthnCredentialPublicKeyRead(t)
        \/ \E outcome \in CreateOutcomes, n \in CredentialIds :
              RotateWebAuthnCredentialRegistered(t, outcome, n)
        \/ RotateWebAuthnCredentialKeyStored(t)
        \/ RotateWebAuthnCredentialCredentialStored(t)
        \/ RotateWebAuthnCredentialMnemonicStored(t)

\* WebAuthn setup, unlock and rotation, with the session operations
NextWebAuthn ==
    \/ Clock
    \/ Process
    \/ StorageOps
    \/ WebAuthnSetupOps(OneKey, Mnemonics)
    \/ WebAuthnUnlockOps
    \/ UnlockTailOps
    \/ WebAuthnRotateOps
    \/ LockSession

SpecWebAuthn == Init /\ [][NextWebAuthn]_vars

\* every way to store a key, with and without a mnemonic, and every way to
\* unlock it; the clock stands still
NextMnemonic ==
    \/ Process
    \/ StorageOps
    \/ SetupOps(OneKey, {PinA}, Mnemonics)
    \/ MnemonicOps
    \/ UnlockOps({PinA})
    \/ InsecureOps(OneKey, Mnemonics)
    \/ WebAuthnSetupOps(OneKey, Mnemonics)
    \/ WebAuthnUnlockOps

SpecMnemonic == Init /\ [][NextMnemonic]_vars

\* a storage request ends in its error event
FaultOps ==
    \E t \in TaskIds :
        \/ ReadStorageFails(t)
        \/ WriteStorageFails(t)

\* every setup and unlock operation over a store whose requests may fail;
\* the clock stands still
NextFault ==
    \/ Process
    \/ StorageOps
    \/ SetupOps(OneKey, {PinA}, {Null})
    \/ UnlockOps({PinA})
    \/ FailureOps
    \/ ChangeOps({PinA}, {PinA})
    \/ InsecureOps(OneKey, Mnemonics \ {Null})
    \/ WebAuthnSetupOps(OneKey, Mnemonics \ {Null})
    \/ WebAuthnUnlockOps
    \/ FaultOps

SpecFault == Init /\ [][NextFault]_vars

\* the read of an updateStorage answers with the default schema
FallbackOps == \E t \in TaskIds : updateStorageReadFallsBack(t)

\* the callers of updateStorage in PIN setup and in the preferences, over a
\* store whose requests may fail; the clock stands still
NextStorage ==
    \/ StorageOps
    \/ SetupOps(OneKey, {PinA}, Mnemonics)
    \/ MnemonicOps
    \/ PrefOps
    \/ FaultOps
    \/ FallbackOps

SpecStorage == Init /\ [][NextStorage]_vars

\* envelopes sealed, rewritten and opened, over and over
NextEnvelope ==
    \/ \E b \in Plaintexts, pw \in Passwords, w \in WorkFactors : EncryptCall(b, pw, w)
    \/ \E m \in MnemonicTexts, pw \in Passwords, w \in WorkFactors :
          EncryptMnemonicCall(m, pw, w)
    \/ \E how \in {"prefix", "version", "ciphertext"}, v \in Versions :
          AlterEnvelope(how, v)
    \/ \E pw \in Passwords : DecryptCall(pw)
    \/ \E pw \in Passwords : DecryptMnemonicCall(pw)

SpecEnvelope == Init /\ [][NextEnvelope]_vars

-----------------------------------------------------------------------------
(* services/crypto.ts called on its own: selectRandomWordIndices *)

\* word counts and selection counts handed to selectRandomWordIndices
MaxWords == 4
MaxSelect == 5
\* Math.random() is drawn from {0/R, 1/R, .., (R-1)/R}
RandomResolution == 4

Min(a, b) == IF a <= b THEN a ELSE b

\* Array.from({ length: wordCount }, (_, i) => i)
ArrayFrom(length) == [j \in 1..length |-> j - 1]

\* available.splice(randomIndex, 1)
splice_Keeps(available, randomIndex) == available

splice(available, randomIndex) ==
    [j \in 1..(Len(available) - 1) |->
        IF j <= randomIndex THEN available[j] ELSE available[j + 1]]

\* indices.sort((a, b) => a - b)
RECURSIVE sort(_)
sort(indices) ==
    IF indices = <<>> THEN <<>>
    ELSE LET least == CHOOSE j \in DOMAIN indices :
                          \A k \in DOMAIN indices : indices[j] <= indices[k]
         IN  <<indices[least]>> \o
             sort([j \in 1..(Len(indices) - 1) |->
                      IF j < least THEN indices[j] ELSE indices[j + 1]])

\* selectRandomWordIndices(wordCount, selectCount): the two arrays are built
SelectCall(wordCount, selectCount) ==
    /\ call = NoCall
    /\ call' = [fn |-> "selectRandomWordIndices", step |-> "loop",
                wordCount |-> wordCount, selectCount |-> selectCount,
                indices |-> <<>>, available |-> ArrayFrom(wordCount),
                i |-> 0, drawn |-> <<>>, result |-> <<>>]
    /\ UNCHANGED <<db, memVars, now, failedSinceStart, failedSinceSetup,
                   lastChange, wrongChecked, tasks, ret, maxInFlight>>

\* one turn of the loop; Math.random() returned k / RandomResolution
SelectStep(k) ==
    /\ call.fn = "selectRandomWordIndices" /\ call.step = "loop"
    /\ call.i < Min(call.selectCount, call.wordCount)
    /\ LET randomIndex == (k * Len(call.available)) \div RandomResolution
       IN  call' = [call EXCEPT
                      !.indices = Append(@, call.available[randomIndex + 1]),
                      !.available = splice(@, randomIndex),
                      !.drawn = Append(@, k),
                      !.i = @ + 1]
    /\ UNCHANGED <<db, memVars, now, failedSinceStart, failedSinceSetup,
                   lastChange, wrongChecked, tasks, ret, maxInFlight>>

\* the loop is over: the indices are sorted in place and returned
SelectReturn ==
    /\ call.fn = "selectRandomWordIndices" /\ call.step = "loop"
    /\ ~(call.i < Min(call.selectCount, call.wordCount))
    /\ call' = [call EXCEPT !.step = "return",
                            !.indices = sort(@),
                            !.result = sort(call.indices)]
    /\ UNCHANGED <<db, memVars, now, failedSinceStart, failedSinceSetup,
                   lastChange, wrongChecked, tasks, ret, maxInFlight>>

NextSelect ==
    \/ \E wordCount \in 0..MaxWords, selectCount \in 0..MaxSelect :
          SelectCall(wordCount, selectCount)
    \/ \E k \in 0..(RandomResolution - 1) : SelectStep(k)
    \/ SelectReturn

SpecSelect == Init /\ [][NextSelect]_vars

-----------------------------------------------------------------------------
(* services/crypto.ts called on its own: timingSafeEqual *)

\* byte strings handed to timingSafeEqual
CompareBytes == {0, 1, 255}
MaxCompareLen == 3
ByteStrings == UNION {[1..n -> CompareBytes] : n \in 0..MaxCompareLen}

\* a ^ b and a | b on numbers
RECURSIVE BitXor(_, _)
BitXor(x, y) ==
    IF x = 0 /\ y = 0 THEN 0
    ELSE ((x + y) % 2) + 2 * BitXor(x \div 2, y \div 2)

RECURSIVE BitOr(_, _)
BitOr(x, y) ==
    IF x = 0 /\ y = 0 THEN 0
    ELSE (IF x % 2 = 1 \/ y % 2 = 1 THEN 1 ELSE 0) + 2 * BitOr(x \div 2, y \div 2)

\* the condition of the for loop
LoopCondition_EarlyExit(i, a, result) == i < Len(a) /\ result = 0

LoopCondition(i, a, result) == i < Len(a)

\* timingSafeEqual(a, b) up to the loop: unequal lengths return at once
CompareCall(a, b) ==
    /\ call = NoCall
    /\ call' = IF Len(a) # Len(b)
               THEN [fn |-> "timingSafeEqual", step |-> "return", a |-> a, b |-> b,
                     i |-> 0, result |-> 0, iterations |-> 0, value |-> FALSE]
               ELSE [fn |-> "timingSafeEqual", step |-> "loop", a |-> a, b |-> b,
                     i |-> 0, result |-> 0, iterations |-> 0, value |-> FALSE]
    /\ UNCHANGED <<db, memVars, now, failedSinceStart, failedSinceSetup,
                   lastChange, wrongChecked, tasks, ret, maxInFlight>>

\* one turn of the loop: result |= a[i] ^ b[i]
CompareStep ==
    /\ call.fn = "timingSafeEqual" /\ call.step = "loop"
    /\ LoopCondition(call.i, call.a, call.result)
    /\ call' = [call EXCEPT
                  !.result = BitOr(@, BitXor(call.a[call.i + 1], call.b[call.i + 1])),
                  !.i = @ + 1,
                  !.iterations = @ + 1]
    /\ UNCHANGED <<db, memVars, now, failedSinceStart, failedSinceSetup,
                   lastChange, wrongChecked, tasks, ret, maxInFlight>>

\* the loop is over: return result === 0
CompareReturn ==
    /\ call.fn = "timingSafeEqual" /\ call.step = "loop"
    /\ ~LoopCondition(call.i, call.a, call.result)
    /\ call' = [call EXCEPT !.step = "return", !.value = (call.result = 0)]
    /\ UNCHANGED <<db, memVars, now, failedSinceStart, failedSinceSetup,
                   lastChange, wrongChecked, tasks, ret, maxInFlight>>

NextCompare ==
    \/ \E a, b \in ByteStrings : CompareCall(a, b)
    \/ CompareStep
    \/ CompareReturn

SpecCompare == Init /\ [][NextCompare]_vars

-----------------------------------------------------------------------------
(* services/crypto.ts called on its own: validateMnemonic and *)
(* mnemonicToPrivateKey.  A phrase is the sequence of its characters. *)

\* U+0131, the dotless i: a lowercase letter whose uppercase is I
DotlessI == "U+0131"
\* what /\s/ matches and trim() removes
WhiteSpace == {" ", "\t"}
AsciiLetters == {"i", "c", "e", "I", "C", "E"}

\* String.prototype.toLowerCase and toUpperCase on one character
toLowerCaseChar(c) ==
    CASE c = "I" -> "i" [] c = "C" -> "c" [] c = "E" -> "e" [] OTHER -> c

toUpperCaseChar(c) ==
    CASE c = "i" -> "I" [] c = "c" -> "C" [] c = "e" -> "E"
      [] c = DotlessI -> "I" [] OTHER -> c

toLowerCase_Identity(s) == s

toLowerCase(s) == [j \in DOMAIN s |-> toLowerCaseChar(s[j])]

\* String.prototype.trim
trim(s) ==
    LET kept == {j \in DOMAIN s : s[j] \notin WhiteSpace}
    IN  IF kept = {} THEN <<>>
        ELSE SubSeq(s, CHOOSE j \in kept : \A k \in kept : j <= k,
                       CHOOSE j \in kept : \A k \in kept : j >= k)

\* s.replace(/\s+/g, ' ')
RECURSIVE replaceWhitespaceRuns(_)
replaceWhitespaceRuns(s) ==
    IF s = <<>> THEN <<>>
    ELSE IF Head(s) \notin WhiteSpace THEN <<Head(s)>> \o replaceWhitespaceRuns(Tail(s))
    ELSE IF Len(s) > 1 /\ s[2] \in WhiteSpace THEN replaceWhitespaceRuns(Tail(s))
    ELSE <<" ">> \o replaceWhitespaceRuns(Tail(s))

\* s.split(' ')
RECURSIVE split(_)
split(s) ==
    LET spaces == {j \in DOMAIN s : s[j] = " "}
    IN  IF spaces = {} THEN <<s>>
        ELSE LET first == CHOOSE j \in spaces : \A k \in spaces : j <= k
             IN  <<SubSeq(s, 1, first - 1)>> \o split(SubSeq(s, first + 1, Len(s)))

\* s.split(/\s+/)
splitWhitespaceRuns(s) == split(replaceWhitespaceRuns(s))

\* the word counts of BIP-39
MnemonicWordCounts == {12, 15, 18, 21, 24}

\* a word of the list, and the phrase of the model that passes the checksum
Word == <<"i", "c", "e">>
ChecksumValid == {[j \in 1..12 |-> Word]}

\* n words joined by single spaces
RECURSIVE Joined(_)
Joined(n) == IF n = 1 THEN Word ELSE Joined(n - 1) \o <<" ">> \o Word

\* types/security.ts isValidMnemonicFormat
isValidMnemonicFormat(value) ==
    IF value = <<>> THEN FALSE
    ELSE Len(splitWhitespaceRuns(toLowerCase(trim(value)))) \in MnemonicWordCounts

\* @scure/bip39 validateMnemonic: word count, word list and checksum; its
\* NFKD normalisation changes no character of the model
bip39Validate(normalized) ==
    /\ Len(split(normalized)) \in MnemonicWordCounts
    /\ split(normalized) \in ChecksumValid

validateMnemonic(mnemonic) ==
    LET normalized == replaceWhitespaceRuns(toLowerCase(trim(mnemonic)))
    IN  IF ~isValidMnemonicFormat(normalized) THEN FALSE
        ELSE bip39Validate(normalized)

\* mnemonicToSeedSync throws on a wrong word count and checks nothing else;
\* the key derived along m/44'/1237'/0'/0/0 is an injective image of the
\* normalised phrase
mnemonicToPrivateKey(mnemonic) ==
    LET normalizedMnemonic == replaceWhitespaceRuns(toLowerCase(trim(mnemonic)))
    IN  IF Len(split(normalizedMnemonic)) \notin MnemonicWordCounts
        THEN [ok |-> FALSE, error |-> "Invalid mnemonic"]
        ELSE [ok |-> TRUE, value |-> [tag |-> "derived", seed |-> normalizedMnemonic]]

\* phrases handed to the two functions: twelve words, the same with a dotless
\* i for the first letter, and eleven words
Phrases ==
    {Joined(12), <<DotlessI>> \o Tail(Joined(12)), Joined(11)}
\* how many characters of a phrase are changed or added
MaxChanges == 1

\* the other case of a character
OtherCase(c) == IF toUpperCaseChar(c) # c THEN toUpperCaseChar(c) ELSE toLowerCaseChar(c)

\* a phrase is typed
PhraseTyped(phrase) ==
    /\ call = NoCall
    /\ call' = [fn |-> "mnemonic", step |-> "typed", phrase |-> phrase,
                variant |-> phrase, changes |-> 0,
                valid |-> <<FALSE, FALSE>>,
                key |-> <<[ok |-> FALSE, error |-> "none"],
                          [ok |-> FALSE, error |-> "none"]>>]
    /\ UNCHANGED <<db, memVars, now, failedSinceStart, failedSinceSetup,
                   lastChange, wrongChecked, tasks, ret, maxInFlight>>

\* the case of one letter of the variant is changed
CaseChanged(j) ==
    /\ call.fn = "mnemonic" /\ call.step = "typed"
    /\ call.changes < MaxChanges
    /\ j \in DOMAIN call.variant
    /\ OtherCase(call.variant[j]) # call.variant[j]
    /\ call' = [call EXCEPT !.variant[j] = OtherCase(@), !.changes = @ + 1]
    /\ UNCHANGED <<db, memVars, now, failedSinceStart, failedSinceSetup,
                   lastChange, wrongChecked, tasks, ret, maxInFlight>>

\* a whitespace character is added after the first j characters of the
\* variant: in front, at the end, or next to whitespace
WhitespaceAdded(j, ws) ==
    /\ call.fn = "mnemonic" /\ call.step = "typed"
    /\ call.changes < MaxChanges
    /\ j \in 0..Len(call.variant)
    /\ IF j = 0 \/ j = Len(call.variant) THEN TRUE
       ELSE call.variant[j] \in WhiteSpace \/ call.variant[j + 1] \in WhiteSpace
    /\ call' = [call EXCEPT
                  !.variant = SubSeq(@, 1, j) \o <<ws>> \o SubSeq(@, j + 1, Len(@)),
                  !.changes = @ + 1]
    /\ UNCHANGED <<db, memVars, now, failedSinceStart, failedSinceSetup,
                   lastChange, wrongChecked, tasks, ret, maxInFlight>>

\* validateMnemonic is called on the phrase and on its variant
ValidateMnemonicCall ==
    /\ call.fn = "mnemonic" /\ call.step = "typed"
    /\ call' = [call EXCEPT
                  !.step = "validateMnemonic",
                  !.valid = <<validateMnemonic(call.phrase),
                              validateMnemonic(call.variant)>>]
    /\ UNCHANGED <<db, memVars, now, failedSinceStart, failedSinceSetup,
                   lastChange, wrongChecked, tasks, ret, maxInFlight>>

\* mnemonicToPrivateKey is called on the phrase and on its variant
MnemonicToPrivateKeyCall ==
    /\ call.fn = "mnemonic" /\ call.step = "typed"
    /\ call' = [call EXCEPT
                  !.step = "mnemonicToPrivateKey",
                  !.key = <<mnemonicToPrivateKey(call.phrase),
                            mnemonicToPrivateKey(call.variant)>>]
    /\ UNCHANGED <<db, memVars, now, failedSinceStart, failedSinceSetup,
                   lastChange, wrongChecked, tasks, ret, maxInFlight>>

NextPhrase ==
    \/ \E phrase \in Phrases : PhraseTyped(phrase)
    \/ \E j \in 1..(Len(Joined(12)) + MaxChanges) : CaseChanged(j)
    \/ \E j \in 0..(Len(Joined(12)) + MaxChanges), ws \in WhiteSpace :
          WhitespaceAdded(j, ws)
    \/ ValidateMnemonicCall
    \/ MnemonicToPrivateKeyCall

SpecPhrase == Init /\ [][NextPhrase]_vars

-----------------------------------------------------------------------------
(* services/crypto.ts called on its own: the nsec and npub codec *)

\* hex values handed to the codec, shortened to two bytes; isValidPrivateKeyHex
\* and isValidPublicKeyHex accept both cases of a digit
CodecDigits == {"0", "a", "A", "f"}
CodecBytes == 2
HexValues == [1..(2 * CodecBytes) -> CodecDigits]

\* privateKeyToNsec(x) or publicKeyToNpub(y)
CodecEncodeCall(kind, hex) ==
    /\ call = NoCall
    /\ call' = [fn |-> "codec", step |-> "encode", kind |-> kind, hex |-> hex,
                encoded |-> IF kind = "nsec"
                              THEN privateKeyToNsec(hex)
                              ELSE publicKeyToNpub([tag |-> "pub", hex |-> hex]),
                decoder |-> "none",
                decoded |-> [ok |-> FALSE, error |-> "none"]]
    /\ UNCHANGED <<db, memVars, now, failedSinceStart, failedSinceSetup,
                   lastChange, wrongChecked, tasks, ret, maxInFlight>>

\* nsecToPrivateKey is called on the encoded string
NsecToPrivateKeyCall ==
    /\ call.fn = "codec" /\ call.step = "encode"
    /\ call' = [call EXCEPT !.step = "decode", !.decoder = "nsecToPrivateKey",
                            !.decoded = nsecToPrivateKey(call.encoded)]
    /\ UNCHANGED <<db, memVars, now, failedSinceStart, failedSinceSetup,
                   lastChange, wrongChecked, tasks, ret, maxInFlight>>

\* npubToPublicKey is called on the encoded string
NpubToPublicKeyCall ==
    /\ call.fn = "codec" /\ call.step = "encode"
    /\ call' = [call EXCEPT
                  !.step = "decode", !.decoder = "npubToPublicKey",
                  !.decoded = LET r == npubToPublicKey(call.encoded)
                              IN  IF r.ok THEN [ok |-> TRUE, value |-> r.value.hex]
                                  ELSE r]
    /\ UNCHANGED <<db, memVars, now, failedSinceStart, failedSinceSetup,
                   lastChange, wrongChecked, tasks, ret, maxInFlight>>

NextCodec ==
    \/ \E kind \in {"nsec", "npub"}, hex \in HexValues : CodecEncodeCall(kind, hex)
    \/ NsecToPrivateKeyCall
    \/ NpubToPublicKeyCall

SpecCodec == Init /\ [][NextCodec]_vars

-----------------------------------------------------------------------------
(* disableWebAuthn, performUnlock *)

\* disableWebAuthn(), up to the read of removeWebAuthnCredential
DisableWebAuthnCall(t) ==
    /\ CanStart(t)
    /\ tasks' = [tasks EXCEPT ![t] =
           [Idle EXCEPT !.op = "disableWebAuthn", !.pc = "dw_read",
                        !.started = now]]
    /\ ret' = NoRet
    /\ UNCHANGED <<db, memVars, now, failedSinceStart, failedSinceSetup, lastChange, wrongChecked, maxInFlight, call>>

\* removeWebAuthnCredential has written: the credential and its secret are
\* gone, the key envelope stays; securityState.authMethod = 'none'
DisableWebAuthnRemoved(t) ==
    /\ tasks[t].op = "disableWebAuthn" /\ tasks[t].pc = "dw_write"
    /\ db' = updateStorage(t,
                [webauthnCredential |-> Null, webauthnEncryptionKey |-> Null,
                 preferences |-> [authMethod |-> "none"]])
    /\ securityState' = [securityState EXCEPT !.authMethod = "none"]
    /\ ret' = Success("disableWebAuthn", Null)
    /\ tasks' = [tasks EXCEPT ![t] = Idle]
    /\ UNCHANGED <<currentUnlockedKey, lockedKeyObject, unlockTimeoutHandle,
                   timers, now, failedSinceStart, failedSinceSetup, lastChange,
                   wrongChecked, maxInFlight, call>>

\* performUnlock(pin): the unlock of the configured method is called; '' is
\* the PIN left out
PerformUnlockCall(t, pin) ==
    IF securityState.authMethod = "webauthn"
      THEN UnlockWithWebAuthnCall(t)
    ELSE IF securityState.authMethod = "pin"
      THEN IF pin = EmptyString
             THEN /\ CanStart(t)
                  /\ ret' = Failure("performUnlock", "PIN required")
                  /\ UNCHANGED <<db, memVars, now, failedSinceStart, failedSinceSetup, lastChange, wrongChecked, tasks, maxInFlight, call>>
           ELSE UnlockWithPINCall(t, pin)
    ELSE IF securityState.hasStoredKey
      THEN UnlockInsecureCall(t)
    ELSE /\ CanStart(t)
         /\ ret' = Failure("performUnlock", "No authentication method set up")
         /\ UNCHANGED <<db, memVars, now, failedSinceStart, failedSinceSetup, lastChange, wrongChecked, tasks, maxInFlight, call>>

DisableOps ==
    \E t \in TaskIds :
        \/ DisableWebAuthnCall(t)
        \/ DisableWebAuthnRemoved(t)

PerformUnlockOps(pins) ==
    \E t \in TaskIds : \E p \in pins : PerformUnlockCall(t, p)

\* WebAuthn and PIN setups, the removal of the WebAuthn credential, and
\* performUnlock as the only way to unlock
NextDisable ==
    \/ Process
    \/ StorageOps
    \/ SetupOps(OneKey, {PinA}, {Null})
    \/ WebAuthnSetupOps(OneKey, Mnemonics)
    \/ DisableOps
    \/ PerformUnlockOps({EmptyString, PinA, PinB})
    \/ \E t \in TaskIds : \/ UnlockWithWebAuthnCredentialRead(t)
                           \/ \E outcome \in GetOutcomes :
                                 UnlockWithWebAuthnVerified(t, outcome)
                           \/ UnlockWithWebAuthnEncryptionKeyRead(t)
                           \/ UnlockRateLimitChecked(t)
                           \/ UnlockHashRead(t)
    \/ UnlockTailOps
    \/ FailureOps

SpecDisable == Init /\ [][NextDisable]_vars

-----------------------------------------------------------------------------
(* clearAllSecurityData *)

\* clearAllSecurityData(): lockSession(), up to the delete request of
\* clearSecureStorage
ClearAllSecurityDataCall(t) ==
    /\ CanStart(t)
    /\ SetMem(lockSession(Mem))
    /\ tasks' = [tasks EXCEPT ![t] =
           [Idle EXCEPT !.op = "clearAllSecurityData", !.pc = "cs_delete",
                        !.started = now]]
    /\ ret' = NoRet
    /\ UNCHANGED <<db, now, failedSinceStart, failedSinceSetup, lastChange, wrongChecked, maxInFlight, call>>

\* the state clearAllSecurityData sets after `await clearSecureStorage()`
ClearedSecurityState ==
    [securityState EXCEPT !.authMethod = "none", !.pinLength = 6,
                          !.hasStoredKey = FALSE, !.isUnlocked = FALSE,
                          !.unlockExpiresAt = 0]

\* store.delete(PRIMARY_KEY) succeeds: the record is gone (readStorage
\* answers createDefaultSchema()), the state is reset
ClearAllSecurityDataDeleted(t) ==
    /\ tasks[t].op = "clearAllSecurityData" /\ tasks[t].pc = "cs_delete"
    /\ db' = createDefaultSchema
    /\ securityState' = ClearedSecurityState
    /\ ret' = Success("clearAllSecurityData", Null)
    /\ tasks' = [u \in TaskIds |->
                   IF u = t \/ tasks[u].op = "idle" THEN Idle
                   ELSE [tasks[u] EXCEPT !.beforeWipe = TRUE]]
    /\ failedSinceSetup' = FALSE
    /\ lastChange' = Null
    /\ Tally(0)
    /\ UNCHANGED <<currentUnlockedKey, lockedKeyObject, unlockTimeoutHandle,
                   timers, now, failedSinceStart, maxInFlight, call>>

\* getStore throws inside the try block of clearSecureStorage: the catch
\* handler logs, nothing is deleted, clearAllSecurityData resets the state
ClearSecureStorageOpenFails(t) ==
    /\ tasks[t].op = "clearAllSecurityData" /\ tasks[t].pc = "cs_delete"
    /\ securityState' = ClearedSecurityState
    /\ ret' = Success("clearAllSecurityData", Null)
    /\ tasks' = [tasks EXCEPT ![t] = Idle]
    /\ UNCHANGED <<db, currentUnlockedKey, lockedKeyObject, unlockTimeoutHandle,
                   timers, now, failedSinceStart, failedSinceSetup, lastChange,
                   wrongChecked, maxInFlight, call>>

\* request.onerror of the store.delete: clearSecureStorage rejects, and so
\* does clearAllSecurityData, before it resets the state
ClearSecureStorageFails(t) ==
    /\ tasks[t].op = "clearAllSecurityData" /\ tasks[t].pc = "cs_delete"
    /\ ret' = Rejected("clearAllSecurityData", "Failed to clear secure storage")
    /\ tasks' = [tasks EXCEPT ![t] = Idle]
    /\ UNCHANGED <<db, memVars, now, failedSinceStart, failedSinceSetup, lastChange, wrongChecked, maxInFlight, call>>

WipeOps ==
    \E t \in TaskIds :
        \/ ClearAllSecurityDataCall(t)
        \/ ClearAllSecurityDataDeleted(t)

WipeFaultOps ==
    \E t \in TaskIds :
        \/ ClearSecureStorageOpenFails(t)
        \/ ClearSecureStorageFails(t)

\* setups and wipes with two calls in flight at once, within one instant
NextWipe ==
    \/ StorageOps
    \/ SetupOps(OneKey, {PinA}, {Null})
    \/ WipeOps

SpecWipe == InitConcurrent /\ [][NextWipe]_vars

\* the operations that write both the record and its in-memory mirror, over
\* a store whose requests may fail
NextMirror ==
    \/ Process
    \/ StorageOps
    \/ SetupOps(OneKey, {PinA}, {Null})
    \/ WebAuthnSetupOps(OneKey, Mnemonics)
    \/ DisableOps
    \/ WipeOps
    \/ WipeFaultOps
    \/ FaultOps

SpecMirror == Init /\ [][NextMirror]_vars

-----------------------------------------------------------------------------
(* stores/relaySync.svelte.ts: RelaySync.  The object is held in `call`; the *)
(* ids to upload and to download are counted, not named.                  *)

\* filters configured, and ids one reconciliation reports in either direction
MaxFilters == 2
MaxEvents == 2

\* get isSyncing()
isSyncing(relaySync) ==
    \/ relaySync.status = "syncing"
    \/ relaySync.status = "uploading"
    \/ relaySync.status = "downloading"
    \/ relaySync.status = "connecting"

\* new RelaySync(relay, filters)
RelaySyncNew(filters) ==
    /\ call = NoCall
    /\ call' = [fn |-> "RelaySync", status |-> "idle", pc |-> "idle",
                filters |-> filters, i |-> 0, have |-> 0, need |-> 0,
                uploaded |-> 0, received |-> 0, error |-> "",
                lastSyncResult |-> "none"]
    /\ UNCHANGED <<db, memVars, now, failedSinceStart, failedSinceSetup,
                   lastChange, wrongChecked, tasks, ret, maxInFlight>>

\* sync(): reconcileOnly runs up to its first await; with no filters it
\* throws before its try block and the rejection reaches the catch of sync
SyncCall ==
    /\ call.fn = "RelaySync" /\ call.pc = "idle"
    /\ IF call.filters = 0
         THEN call' = [call EXCEPT !.pc = "sync_catch",
                                   !.error = "No filters configured for sync",
                                   !.i = 0, !.have = 0, !.need = 0,
                                   !.uploaded = 0, !.received = 0]
         ELSE call' = [call EXCEPT !.status = "connecting", !.error = "",
                                   !.pc = "fetch", !.i = 0, !.have = 0, !.need = 0,
                                   !.uploaded = 0, !.received = 0]
    /\ UNCHANGED <<db, memVars, now, failedSinceStart, failedSinceSetup,
                   lastChange, wrongChecked, tasks, ret, maxInFlight>>

\* getLocalEventsForFilter resolves (with the events, or [] on a failure);
\* after the last filter performMultiFilterNegentropySync is awaited
LocalEventsFetched ==
    /\ call.fn = "RelaySync" /\ call.pc = "fetch"
    /\ IF call.i + 1 < call.filters
         THEN call' = [call EXCEPT !.i = @ + 1]
         ELSE call' = [call EXCEPT !.i = @ + 1, !.status = "syncing",
                                   !.pc = "negentropy"]
    /\ UNCHANGED <<db, memVars, now, failedSinceStart, failedSinceSetup,
                   lastChange, wrongChecked, tasks, ret, maxInFlight>>

\* performMultiFilterNegentropySync resolves: reconcileOnly sets 'complete'
\* and returns the results
ReconcileOnlyResolved(have, need) ==
    /\ call.fn = "RelaySync" /\ call.pc = "negentropy"
    /\ call' = [call EXCEPT !.status = "complete", !.have = have, !.need = need,
                            !.pc = "sync_resume"]
    /\ UNCHANGED <<db, memVars, now, failedSinceStart, failedSinceSetup,
                   lastChange, wrongChecked, tasks, ret, maxInFlight>>

\* performMultiFilterNegentropySync rejects: the catch of reconcileOnly sets
\* 'error' and throws again
ReconcileOnlyRejected ==
    /\ call.fn = "RelaySync" /\ call.pc = "negentropy"
    /\ call' = [call EXCEPT !.status = "error", !.error = "Unknown error",
                            !.pc = "sync_catch"]
    /\ UNCHANGED <<db, memVars, now, failedSinceStart, failedSinceSetup,
                   lastChange, wrongChecked, tasks, ret, maxInFlight>>

\* the end of the try block of sync
SyncCompleted(relaySync) ==
    [relaySync EXCEPT !.status = "complete", !.lastSyncResult = "success",
                      !.pc = "idle"]

\* sync after uploadEvents: the download, if any id is needed
SyncAfterUpload(relaySync) ==
    IF relaySync.need > 0
      THEN [relaySync EXCEPT !.status = "downloading", !.pc = "download"]
      ELSE SyncCompleted(relaySync)

\* sync resumes after `await this.reconcileOnly()`
SyncResumed ==
    /\ call.fn = "RelaySync" /\ call.pc = "sync_resume"
    /\ IF call.have > 0
         THEN call' = [call EXCEPT !.status = "uploading", !.pc = "upload"]
         ELSE call' = SyncAfterUpload(call)
    /\ UNCHANGED <<db, memVars, now, failedSinceStart, failedSinceSetup,
                   lastChange, wrongChecked, tasks, ret, maxInFlight>>

\* event.publish settles (a failure is logged): the next event, or the end
\* of uploadEvents
EventPublished ==
    /\ call.fn = "RelaySync" /\ call.pc = "upload"
    /\ IF call.uploaded + 1 < call.have
         THEN call' = [call EXCEPT !.uploaded = @ + 1]
         ELSE call' = SyncAfterUpload([call EXCEPT !.uploaded = @ + 1])
    /\ UNCHANGED <<db, memVars, now, failedSinceStart, failedSinceSetup,
                   lastChange, wrongChecked, tasks, ret, maxInFlight>>

\* subscription.on('event')
EventDownloaded ==
    /\ call.fn = "RelaySync" /\ call.pc = "download"
    /\ call.received < call.need
    /\ call' = [call EXCEPT !.received = @ + 1]
    /\ UNCHANGED <<db, memVars, now, failedSinceStart, failedSinceSetup,
                   lastChange, wrongChecked, tasks, ret, maxInFlight>>

\* subscription.on('eose'), or the 30 s timeout: downloadEvents resolves
DownloadEnded ==
    /\ call.fn = "RelaySync" /\ call.pc = "download"
    /\ call' = SyncCompleted(call)
    /\ UNCHANGED <<db, memVars, now, failedSinceStart, failedSinceSetup,
                   lastChange, wrongChecked, tasks, ret, maxInFlight>>

\* the catch of sync
SyncFailed ==
    /\ call.fn = "RelaySync" /\ call.pc = "sync_catch"
    /\ call' = [call EXCEPT !.status = "error", !.lastSyncResult = "error",
                            !.pc = "idle"]
    /\ UNCHANGED <<db, memVars, now, failedSinceStart, failedSinceSetup,
                   lastChange, wrongChecked, tasks, ret, maxInFlight>>

\* reset(), between two syncs
RelaySyncReset ==
    /\ call.fn = "RelaySync" /\ call.pc = "idle"
    /\ call' = [call EXCEPT !.status = "idle", !.error = "",
                            !.lastSyncResult = "none"]
    /\ UNCHANGED <<db, memVars, now, failedSinceStart, failedSinceSetup,
                   lastChange, wrongChecked, tasks, ret, maxInFlight>>

\* setFilters(filters), between two syncs
SetFilters(filters) ==
    /\ call.fn = "RelaySync" /\ call.pc = "idle"
    /\ call' = [call EXCEPT !.filters = filters]
    /\ UNCHANGED <<db, memVars, now, failedSinceStart, failedSinceSetup,
                   lastChange, wrongChecked, tasks, ret, maxInFlight>>

NextRelaySync ==
    \/ \E filters \in 0..MaxFilters : RelaySyncNew(filters)
    \/ \E filters \in 0..MaxFilters : SetFilters(filters)
    \/ SyncCall
    \/ LocalEventsFetched
    \/ \E have, need \in 0..MaxEvents : ReconcileOnlyResolved(have, need)
    \/ ReconcileOnlyRejected
    \/ SyncResumed
    \/ EventPublished
    \/ EventDownloaded
    \/ DownloadEnded
    \/ SyncFailed
    \/ RelaySyncReset

SpecRelaySync == Init /\ [][NextRelaySync]_vars

-----------------------------------------------------------------------------
(* exportMnemonic *)

\* exportMnemonic(pin), up to the read of getEncryptedMnemonic
ExportMnemonicCall(t, pin) ==
    /\ CanStart(t)
    /\ tasks' = [tasks EXCEPT ![t] =
           [Idle EXCEPT !.op = "exportMnemonic", !.pc = "em_mn_read",
                        !.pin = pin, !.started = now]]
    /\ ret' = NoRet
    /\ UNCHANGED <<db, memVars, now, failedSinceStart, failedSinceSetup, lastChange, wrongChecked, maxInFlight, call>>

\* what exportMnemonic returns once it has its decryption key
ExportMnemonicResult(encryptedMnemonic, decryptionKey, pin) ==
    LET r == decryptMnemonicNip49(encryptedMnemonic, decryptionKey)
    IN  IF r.ok
          THEN [Success("exportMnemonic", Null)
                  EXCEPT !.mnemonic = r.value, !.pin = pin, !.decryptAttempted = TRUE]
          ELSE [Failure("exportMnemonic", r.error)
                  EXCEPT !.pin = pin, !.decryptAttempted = TRUE]

\* getEncryptedMnemonic completes: the decryption key is chosen by
\* securityState.authMethod and, unless a credential secret has to be read,
\* the envelope is decrypted
ExportMnemonicMnemonicRead(t) ==
    /\ tasks[t].op = "exportMnemonic" /\ tasks[t].pc = "em_mn_read"
    /\ IF db.encryptedMnemonic = Null
         THEN /\ ret' = [Failure("exportMnemonic", "No mnemonic stored")
                           EXCEPT !.pin = tasks[t].pin]
              /\ tasks' = [tasks EXCEPT ![t] = Idle]
       ELSE IF securityState.authMethod = "pin"
         THEN /\ ret' = ExportMnemonicResult(db.encryptedMnemonic, tasks[t].pin,
                                             tasks[t].pin)
              /\ tasks' = [tasks EXCEPT ![t] = Idle]
       ELSE IF securityState.authMethod = "webauthn"
         THEN /\ tasks' = [tasks EXCEPT ![t].cur = db, ![t].pc = "em_ek_read"]
              /\ ret' = NoRet
       ELSE /\ ret' = ExportMnemonicResult(db.encryptedMnemonic, INSECURE_STORAGE_KEY,
                                           tasks[t].pin)
            /\ tasks' = [tasks EXCEPT ![t] = Idle]
    /\ UNCHANGED <<db, memVars, now, failedSinceStart, failedSinceSetup, lastChange, wrongChecked, maxInFlight, call>>

\* getWebAuthnEncryptionKey completes: the envelope read before is decrypted
ExportMnemonicEncryptionKeyRead(t) ==
    /\ tasks[t].op = "exportMnemonic" /\ tasks[t].pc = "em_ek_read"
    /\ IF db.webauthnEncryptionKey = Null
         THEN ret' = [Failure("exportMnemonic", "WebAuthn key not found")
                        EXCEPT !.pin = tasks[t].pin]
         ELSE ret' = ExportMnemonicResult(tasks[t].cur.encryptedMnemonic,
                                          db.webauthnEncryptionKey.key, tasks[t].pin)
    /\ tasks' = [tasks EXCEPT ![t] = Idle]
    /\ UNCHANGED <<db, memVars, now, failedSinceStart, failedSinceSetup, lastChange, wrongChecked, maxInFlight, call>>

ExportOps(pins) ==
    \E t \in TaskIds :
        \/ \E p \in pins : ExportMnemonicCall(t, p)
        \/ ExportMnemonicMnemonicRead(t)
        \/ ExportMnemonicEncryptionKeyRead(t)

\* PIN and credential setup with a mnemonic, unlockWithPIN and exportMnemonic
\* with right and wrong PINs; the clock stands still
NextExport ==
    \/ Process
    \/ StorageOps
    \/ SetupOps(OneKey, {PinA}, Mnemonics \ {Null})
    \/ MnemonicOps
    \/ UnlockOps(TwoPins)
    \/ FailureOps
    \/ WebAuthnSetupOps(OneKey, Mnemonics \ {Null})
    \/ ExportOps(TwoPins)

SpecExport == Init /\ [][NextExport]_vars

-----------------------------------------------------------------------------
(* Properties: PIN rate limiting *)

\* five or more failures are recorded and the last is less than 5 minutes old
LockoutActive ==
    /\ db.preferences.failedPinAttempts >= 5
    /\ db.preferences.lastFailedAttemptAt # 0
    /\ now - db.preferences.lastFailedAttemptAt < 5 * 60 * 1000

\* five or more failures are recorded and the last is 5 minutes old or more
LockoutElapsed ==
    /\ db.preferences.failedPinAttempts >= 5
    /\ db.preferences.lastFailedAttemptAt # 0
    /\ now - db.preferences.lastFailedAttemptAt >= 5 * 60 * 1000

\* pin is the PIN of the stored verifier and of the stored, unaltered envelope
PinMatches(pin) ==
    /\ db.pinHash # Null /\ db.pinHash.hash = pin
    /\ db.encryptedKey # Null
    /\ db.encryptedKey.hrp = "ncryptsec"
    /\ db.encryptedKey.password = pin
    /\ db.encryptedKey.intact

\* the result of an unlockWithPIN that the lockout refused
Refused(r) ==
    /\ r.op = "unlockWithPIN"
    /\ ~r.success
    /\ r.key = Null
    /\ r.error = "Too many failed attempts"

\* the step by which the unlockWithPIN of slot t returns
UnlockReturns(t) ==
    /\ tasks[t].op = "unlockWithPIN"
    /\ tasks'[t].op = "idle"
    /\ ret'.op = "unlockWithPIN"

\* C1: an unlockWithPIN whose rate-limit check runs while 5 failures are
\* recorded and the last is less than 5 minutes old is refused whatever the PIN:
\* it returns 'Too many failed attempts' with a wait of at least 1 second and
\* no decryption was attempted.
C1_LockedOutRefused ==
    [][\A t \in TaskIds :
          (UnlockRateLimitChecked(t) /\ LockoutActive)
            => /\ Refused(ret')
               /\ ret'.waitSeconds >= 1
               /\ ~ret'.decryptAttempted
               /\ ~tasks[t].decrypted
               /\ tasks'[t] = Idle]_vars

\* the correct PIN was refused
C1_Witness == Refused(ret) /\ PinMatches(ret.pin) /\ ret.waitSeconds >= 1

\* C2: an unlockWithPIN whose rate-limit check runs once 5 minutes have passed
\* since the last failure of a locked-out PIN is not refused: it resets
\* failedPinAttempts to 0, and with the correct PIN it succeeds.
C2_LockoutExpires ==
    [][\A t \in TaskIds :
          /\ (UnlockRateLimitChecked(t) /\ LockoutElapsed)
               => tasks'[t].pc = "reset_read" /\ ret' = NoRet
          /\ UnlockCounterReset(t)
               => /\ db'.preferences.failedPinAttempts = 0
                  /\ db'.preferences.lastFailedAttemptAt = 0
          /\ (UnlockReturns(t) /\ tasks[t].reset /\ PinMatches(tasks[t].pin))
               => ret'.success /\ ret'.key # Null]_vars

\* a locked-out PIN was unlocked by the call that reset the counter
C2_Witness ==
    /\ ret.op = "unlockWithPIN" /\ ret.success /\ ret.counterReset
    /\ db.preferences.failedPinAttempts = 0
    /\ securityState.isUnlocked

C4_RefusalLeavesCounter ==
    [][\A t \in TaskIds :
          /\ (\E p \in Pins : UnlockWithPINCall(t, p)) => db' = db
          /\ (UnlockRateLimitChecked(t) /\ LockoutActive)
               => /\ db' = db
                  /\ Refused(ret')]_vars

\* a wrong PIN was refused and the counter stands at 5
C4_Witness ==
    /\ Refused(ret) /\ ~PinMatches(ret.pin)
    /\ db.preferences.failedPinAttempts = 5
    /\ db.preferences.lastFailedAttemptAt # 0

\* C5: a well-formed PIN that does not match the stored verifier makes
\* unlockWithPIN record one failure (failedPinAttempts + 1, lastFailedAttemptAt
\* the time read during the call) and return 'Incorrect PIN'; it attempts no
\* decryption and leaves the session state as it was.
C5_WrongPinRecorded ==
    [][\A t \in TaskIds :
          /\ (UnlockHashRead(t) /\ db.pinHash # Null /\ db.pinHash.hash # tasks[t].pin)
               => /\ tasks'[t].pc = "rf_read1"
                  /\ tasks'[t].err = "Incorrect PIN"
                  /\ ~tasks'[t].decrypted
                  /\ UNCHANGED <<db, memVars>>
          /\ (tasks[t].err = "Incorrect PIN"
                /\ (RecordFailedRead(t) \/ updateStorageRead(t)))
               => UNCHANGED <<db, memVars>>
          /\ (tasks[t].err = "Incorrect PIN" /\ RecordFailedWritten(t))
               => /\ db'.preferences.failedPinAttempts
                        = db.preferences.failedPinAttempts + 1
                  /\ db'.preferences.lastFailedAttemptAt \in tasks[t].started..now
                  /\ [db' EXCEPT !.preferences = db.preferences] = db
                  /\ ret'.op = "unlockWithPIN" /\ ~ret'.success /\ ret'.key = Null
                  /\ ret'.error = "Incorrect PIN"
                  /\ ~ret'.decryptAttempted
                  /\ UNCHANGED memVars]_vars

\* a second wrong PIN was recorded, the session still locked
C5_Witness ==
    /\ ret.op = "unlockWithPIN" /\ ret.error = "Incorrect PIN"
    /\ ~ret.decryptAttempted
    /\ db.preferences.failedPinAttempts = 2
    /\ db.preferences.lastFailedAttemptAt = now
    /\ ~securityState.isUnlocked /\ currentUnlockedKey = Null

\* C6: when the PIN matches the verifier and the stored envelope is corrupted,
\* unlockWithPIN takes its failure path: it returns a failure without a key and
\* the session state (isUnlocked, the key in memory, the timer) stays as it was.
C6_CorruptEnvelopeFails ==
    [][\A t \in TaskIds :
          /\ (/\ UnlockKeyRead(t)
              /\ tasks[t].op = "unlockWithPIN"
              /\ db.pinHash # Null /\ db.pinHash.hash = tasks[t].pin
              /\ db.encryptedKey # Null /\ ~db.encryptedKey.intact)
               => /\ tasks'[t].pc = "rf_read1"
                  /\ tasks'[t].dk = Null
                  /\ tasks'[t].err # ""
                  /\ UNCHANGED memVars
          /\ (/\ tasks[t].pc \in {"rf_read1", "rf_read2", "rf_write"}
              /\ (RecordFailedRead(t) \/ updateStorageRead(t) \/ RecordFailedWritten(t)))
               => /\ UNCHANGED memVars
                  /\ ret' # NoRet => (~ret'.success /\ ret'.key = Null)]_vars

\* the right PIN failed on a corrupted envelope, the session still locked
C6_Witness ==
    /\ ret.op = "unlockWithPIN" /\ ~ret.success /\ ret.decryptAttempted
    /\ ret.error = "invalid tag"
    /\ db.pinHash # Null /\ db.pinHash.hash = ret.pin
    /\ db.encryptedKey # Null /\ ~db.encryptedKey.intact
    /\ ~securityState.isUnlocked /\ currentUnlockedKey = Null

\* C7: a restart and initializeSecurity leave the persisted record, with
\* failedPinAttempts and lastFailedAttemptAt, as it was; a PIN locked out by
\* failures of an earlier process is refused while the window lasts.
C7_LockoutSurvivesRestart ==
    [][/\ (\/ Restart
           \/ \E t \in TaskIds : \/ InitializeSecurityCall(t)
                                 \/ InitializeSecurityAvail(t)
                                 \/ InitializeSecurityLoad(t))
          => db' = db
       /\ \A t \in TaskIds :
            (UnlockRateLimitChecked(t) /\ ~failedSinceStart /\ LockoutActive)
              => Refused(ret') /\ ~ret'.decryptAttempted]_vars

\* a process that recorded no failure itself refused an unlock
C7_Witness ==
    /\ Refused(ret)
    /\ ~failedSinceStart
    /\ ~securityState.isInitializing
    /\ db.preferences.failedPinAttempts = 5

-----------------------------------------------------------------------------
(* Properties: concurrent updates, the setup/unlock round trip, sessions *)

\* C8: with two storage updates in flight the record reflects both: each
\* recordFailedPinAttempt raises the stored count by one, and the write of
\* storeEncryptedMnemonic leaves failedPinAttempts and lastFailedAttemptAt as
\* they are (it does not undo a failure recorded meanwhile).
C8_UpdatesSerialised ==
    [][\A t \in TaskIds :
          /\ RecordFailedWritten(t)
               => db'.preferences.failedPinAttempts
                     = db.preferences.failedPinAttempts + 1
          /\ SetupPINAuthMnemonicStored(t)
               => /\ db'.preferences.failedPinAttempts
                        = db.preferences.failedPinAttempts
                  /\ db'.preferences.lastFailedAttemptAt
                        = db.preferences.lastFailedAttemptAt]_vars

\* C9: when the record holds the verifier of p and the envelope of k under p,
\* as a successful setupPINAuth(k, p) leaves them, no failed attempt was
\* recorded since, and the session is locked (a fresh process that ran
\* initializeSecurity), unlockWithPIN(p) succeeds and returns k.
C9_SetupUnlockRoundTrip ==
    [][\A t \in TaskIds :
          (/\ UnlockReturns(t)
           /\ PinMatches(tasks[t].pin)
           /\ db.preferences.authMethod = "pin"
           /\ ~failedSinceSetup
           /\ ~securityState.isUnlocked /\ currentUnlockedKey = Null)
            => /\ ret'.success
               /\ ret'.key # Null
               /\ \E k \in Keys : /\ hexToBytes(k) = db.encryptedKey.plaintext
                                  /\ ret'.key.privateKeyHex = k]_vars

\* C10: while autoLockEnabled is false an unlocked session has no expiry:
\* unlockExpiresAt is null and no lock timer is pending.
C10_NoExpiryWhenAutoLockOff ==
    (~securityState.autoLockEnabled /\ securityState.isUnlocked)
      => /\ securityState.unlockExpiresAt = 0
         /\ timers = {}

-----------------------------------------------------------------------------
(* Properties: session expiry and the lock timer *)

\* C11: while autoLockEnabled is true an unlocked session, whichever operation
\* opened it, has an expiry and a pending timer due at that expiry that calls
\* lockSession.
C11_AutoLockTimerPending ==
    (securityState.autoLockEnabled /\ securityState.isUnlocked)
      => /\ securityState.unlockExpiresAt # 0
         /\ securityState.unlockExpiresAt \in timers

\* C12: with auto-lock enabled, getUnlockedKey called later than
\* unlockExpiresAt returns null and leaves isUnlocked false and no key in
\* memory, whether or not a timer is pending.
C12_LazyExpiry ==
    [][(/\ GetUnlockedKey
        /\ securityState.autoLockEnabled
        /\ securityState.isUnlocked
        /\ securityState.unlockExpiresAt # 0
        /\ now > securityState.unlockExpiresAt)
         => /\ ret'.op = "getUnlockedKey" /\ ret'.key = Null /\ ~ret'.success
            /\ ~securityState'.isUnlocked
            /\ securityState'.unlockExpiresAt = 0
            /\ currentUnlockedKey' = Null]_vars

\* getUnlockedKey found the session expired and locked it itself
C12_Witness ==
    /\ ret.op = "getUnlockedKey" /\ ret.lockedNow /\ ret.key = Null
    /\ securityState.autoLockEnabled
    /\ ~securityState.isUnlocked /\ currentUnlockedKey = Null

\* C14: at most one session-lock timer is pending, it is the one the handle
\* names, and while a session is open a pending timer is due at that
\* session's own expiry, never earlier.
C14_OneTimer ==
    /\ Cardinality(timers) <= 1
    /\ timers \subseteq {unlockTimeoutHandle}
    /\ securityState.isUnlocked
         => \A deadline \in timers : deadline = securityState.unlockExpiresAt

\* a session extended or opened after the first one, with its single timer
C14_Witness ==
    /\ securityState.isUnlocked
    /\ timers = {securityState.unlockExpiresAt}
    /\ securityState.unlockExpiresAt > 1 + UNLOCK_SESSION_DURATION

\* C15: no step of an unlockWithPIN called with a PIN that is not exactly
\* pinLength digits writes the persisted record; the failure counter stays as
\* it was.
C15_MalformedPinLeavesRecord ==
    [][\A t \in TaskIds :
          (/\ tasks[t].op = "unlockWithPIN"
           /\ ~isValidPIN(tasks[t].pin, securityState.pinLength)
           /\ tasks'[t] # tasks[t])
            => db' = db]_vars

\* C13: a lockSession that closes a session leaves no plaintext secret on the
\* key object it lets go of (private key hex, nsec, mnemonic), and afterwards
\* isUnlocked is false, unlockExpiresAt is null and getUnlockedKey returns
\* null.
C13_LockClearsSecrets ==
    [][(LockSession /\ currentUnlockedKey # Null)
         => /\ lockedKeyObject'.privateKeyHex = EmptyString
            /\ lockedKeyObject'.nsec = EmptyBech32
            /\ lockedKeyObject'.mnemonic.tag # "mnemonic"
            /\ ~securityState'.isUnlocked
            /\ securityState'.unlockExpiresAt = 0
            /\ currentUnlockedKey' = Null
            /\ getUnlockedKey(lockSession(Mem), now).key = Null]_vars

-----------------------------------------------------------------------------
(* Properties: PIN format and PIN change *)

\* pin does not consist of exactly len digits
Malformed(pin, len) ==
    \/ Len(pin) # len
    \/ \E i \in 1..Len(pin) : pin[i] \notin Digits

\* the call returned at once: no storage request, no change of the record or
\* of the in-memory state
RejectedAtOnce ==
    /\ ~ret'.success
    /\ UNCHANGED <<db, memVars, tasks>>

\* C16 as stated: setupPINAuth, and changePIN for the new PIN, called with a
\* PIN that is not exactly pinLength digits return the failure 'PIN must be
\* exactly N digits' at once and leave record and state unchanged.
C16_MalformedPinRejected ==
    [][\A t \in TaskIds, p \in Pins, l \in PinLengths :
          Malformed(p, l) =>
            /\ \A k \in Keys, m \in Mnemonics :
                  SetupPINAuthCall(t, k, p, l, m)
                    => /\ RejectedAtOnce
                       /\ ret'.error = "PIN must be exactly N digits"
            /\ \A o \in Pins :
                  ChangePINCall(t, o, p, l)
                    => /\ RejectedAtOnce
                       /\ ret'.error = "PIN must be exactly N digits"]_vars

\* C16 amended: as C16, but changePIN's failure reads 'New PIN must be
\* exactly N digits'.
C16_MalformedPinRejected_Amended ==
    [][\A t \in TaskIds, p \in Pins, l \in PinLengths :
          Malformed(p, l) =>
            /\ \A k \in Keys, m \in Mnemonics :
                  SetupPINAuthCall(t, k, p, l, m)
                    => /\ RejectedAtOnce
                       /\ ret'.op = "setupPINAuth"
                       /\ ret'.error = "PIN must be exactly N digits"
            /\ \A o \in Pins :
                  ChangePINCall(t, o, p, l)
                    => /\ RejectedAtOnce
                       /\ ret'.op = "changePIN"
                       /\ ret'.error = "New PIN must be exactly N digits"]_vars

\* a changePIN to a PIN with a letter in it was rejected while a PIN is set up
C16_Witness ==
    /\ ret.op = "changePIN" /\ ~ret.success
    /\ ret.error = "New PIN must be exactly N digits"
    /\ ret.pin = PinD
    /\ securityState.authMethod = "pin" /\ db.pinHash # Null

\* C20: after a changePIN(oldPin, newPin) that succeeded, and until a key is
\* stored anew, an unlockWithPIN(oldPin) fails, and an unlockWithPIN(newPin)
\* that the lockout does not refuse succeeds and returns the private key and
\* the mnemonic the unlock with oldPin gave before the change.
C20_ChangePINRoundTrip ==
    [][\A t \in TaskIds :
          (UnlockReturns(t) /\ lastChange # Null)
            => /\ (/\ tasks[t].pin = lastChange.oldPin
                   /\ lastChange.oldPin # lastChange.newPin)
                    => ~ret'.success
               /\ (tasks[t].pin = lastChange.newPin /\ ~Refused(ret'))
                    => /\ ret'.success
                       /\ ret'.key.privateKeyHex = lastChange.privateKeyHex
                       /\ ret'.key.mnemonic = lastChange.mnemonic]_vars

-----------------------------------------------------------------------------
(* Properties: the no-authentication mode *)

\* the record holds an unaltered key envelope under the fixed constant, as a
\* successful storeInsecurely leaves it
StoredInsecurely ==
    /\ db.encryptedKey # Null
    /\ db.encryptedKey.hrp = "ncryptsec"
    /\ db.encryptedKey.password = INSECURE_STORAGE_KEY
    /\ db.encryptedKey.intact

\* C19: while the record holds the envelope storeInsecurely(k) wrote,
\* unlockInsecure decrypts it without a password and returns success with
\* privateKeyHex = k, whatever the PIN failure counter says.
C19_InsecureRoundTrip ==
    [][\A t \in TaskIds :
          (/\ tasks[t].op = "unlockInsecure"
           /\ UnlockKeyRead(t) \/ UnlockRecorded(t)
           /\ StoredInsecurely)
            => \E k \in Keys :
                  /\ hexToBytes(k) = db.encryptedKey.plaintext
                  /\ tasks[t].pc = "key_read"
                       => /\ tasks'[t].pc = "mn_read"
                          /\ tasks'[t].dk.privateKeyHex = k
                  /\ tasks[t].pc = "ru_write"
                       => /\ ret'.op = "unlockInsecure" /\ ret'.success
                          /\ ret'.key.privateKeyHex = k
                          /\ currentUnlockedKey'.privateKeyHex = k]_vars

\* unlockInsecure has decrypted the key while the PIN lockout is active
C19_Witness ==
    /\ StoredInsecurely
    /\ LockoutActive
    /\ \E t \in TaskIds :
          /\ tasks[t].op = "unlockInsecure" /\ tasks[t].pc = "ru_write"
          /\ hexToBytes(tasks[t].dk.privateKeyHex) = db.encryptedKey.plaintext

-----------------------------------------------------------------------------
(* Properties: WebAuthn *)

WebAuthnOperations ==
    {"unlockWithWebAuthn", "setupWebAuthnAuth", "rotateWebAuthnCredential"}

\* where a WebAuthn call stands while none of its ceremonies has succeeded
\* for the last time: nothing was written yet
BeforeCeremonyPcs ==
    {"wu_cred_read", "wu_verify", "ws_register", "wr_cred_read", "wr_verify",
     "wr_ek_read", "wr_key_read", "wr_mn_read", "wr_pub_read", "wr_register"}

\* the step by which the ceremony of the call in slot t ends cancelled or
\* timed out
CeremonyCancelled(t) ==
    \/ UnlockWithWebAuthnVerified(t, "NotAllowedError")
    \/ RotateWebAuthnCredentialVerified(t, "NotAllowedError")
    \/ \E n \in CredentialIds :
          \/ SetupWebAuthnAuthRegistered(t, "NotAllowedError", n)
          \/ RotateWebAuthnCredentialRegistered(t, "NotAllowedError", n)

\* C17: a ceremony that is cancelled or times out during unlockWithWebAuthn,
\* setupWebAuthnAuth or rotateWebAuthnCredential ends the call with a failure
\* result, and neither that step nor any step the call took before it
\* changes the persisted record, the security state or the session.
C17_CancelledCeremony ==
    [][\A t \in TaskIds :
          /\ CeremonyCancelled(t)
               => /\ ret'.op = tasks[t].op /\ ~ret'.success /\ ret'.key = Null
                  /\ ret'.error # ""
                  /\ tasks'[t] = Idle
                  /\ UNCHANGED <<db, memVars>>
          /\ (/\ tasks'[t].op \in WebAuthnOperations
              /\ tasks'[t].pc \in BeforeCeremonyPcs
              /\ tasks'[t] # tasks[t])
               => UNCHANGED <<db, memVars>>]_vars

\* rotateWebAuthnCredential ended at its cancelled registration, with the old
\* credential in place and a session open
C17_Witness ==
    /\ ret.op = "rotateWebAuthnCredential" /\ ~ret.success
    /\ ret.error = "User cancelled the registration"
    /\ db.webauthnCredential # Null /\ db.webauthnEncryptionKey # Null
    /\ db.preferences.authMethod = "webauthn"
    /\ securityState.isUnlocked

\* the stored mnemonic envelope does not decrypt with the password the unlock
\* in slot t uses
MnemonicUnreadable(t) ==
    /\ db.encryptedMnemonic # Null
    /\ \/ db.encryptedMnemonic.password # UnlockPassword(t)
       \/ ~db.encryptedMnemonic.intact

\* C18: in unlockWithPIN, unlockWithWebAuthn and unlockInsecure alike, once
\* the key envelope has decrypted, a stored mnemonic envelope that does not
\* decrypt neither fails the unlock nor is reported or counted: the call goes
\* on to recordUnlock and returns success with a key that carries no
\* mnemonic, the session opened on that key, the failure counter at 0.
C18_MnemonicFailureTolerated ==
    [][\A t \in TaskIds :
          (tasks[t].op \in UnlockOperations /\ MnemonicUnreadable(t))
            => /\ UnlockMnemonicRead(t)
                    => /\ tasks'[t].pc = "ru_read"
                       /\ tasks'[t].dk.mnemonic = Null
                       /\ tasks'[t].err = ""
                       /\ ret' = NoRet
               /\ (UnlockRecorded(t) /\ tasks[t].caller = "none")
                    => /\ ret'.op = tasks[t].op /\ ret'.success /\ ret'.error = ""
                       /\ ret'.key # Null /\ ret'.key.mnemonic = Null
                       /\ securityState'.isUnlocked
                       /\ currentUnlockedKey' = ret'.key
                       /\ db'.preferences.failedPinAttempts = 0]_vars

\* an unlockWithPIN returned a key without mnemonic while a mnemonic envelope
\* written under another password is stored
C18_Witness ==
    /\ ret.op = "unlockWithPIN" /\ ret.success
    /\ ret.key.mnemonic = Null
    /\ db.encryptedMnemonic # Null
    /\ db.encryptedMnemonic.password # ret.pin
    /\ securityState.isUnlocked /\ currentUnlockedKey = ret.key

-----------------------------------------------------------------------------
(* Properties: credential rotation *)

\* the call in slot t returns success from rotateWebAuthnCredential in this step
RotationSucceeds(t) ==
    /\ tasks[t].op = "rotateWebAuthnCredential"
    /\ ret'.op = "rotateWebAuthnCredential"
    /\ ret'.success

\* C21: when rotateWebAuthnCredential returns success, the persisted key
\* envelope and the persisted mnemonic envelope, if there is one, decrypt
\* under the persisted new secret to the plaintext they held when the call
\* started, and the record holds neither the old credential nor the old
\* secret.  (tasks[t].before is the record as it was when the call started.)
C21_RotationPreserves ==
    [][\A t \in TaskIds :
        RotationSucceeds(t) =>
            LET old == tasks[t].before
                secret == db'.webauthnEncryptionKey.key
            IN  /\ db'.encryptedKey.password = secret
                /\ db'.encryptedKey.intact
                /\ db'.encryptedKey.plaintext = old.encryptedKey.plaintext
                /\ db'.encryptedMnemonic # Null =>
                      /\ db'.encryptedMnemonic.password = secret
                      /\ db'.encryptedMnemonic.intact
                      /\ db'.encryptedMnemonic.plaintext = old.encryptedMnemonic.plaintext
                /\ db'.webauthnCredential # old.webauthnCredential
                /\ db'.webauthnEncryptionKey # old.webauthnEncryptionKey]_vars

-----------------------------------------------------------------------------
(* Properties: failures of the store *)

SetupUnlockOperations ==
    {"setupPINAuth", "setupWebAuthnAuth", "storeInsecurely", "changePIN",
     "unlockWithPIN", "unlockWithWebAuthn", "unlockInsecure"}

\* C22: whatever a setup or unlock operation hands to its caller is a result
\* object with a success flag; its promise never rejects, also when a storage
\* read or write fails.
C22_AlwaysResolves ==
    ret.op \in SetupUnlockOperations => ~ret.rejected

\* the fields of the record, and of its preferences, that the updateStorage
\* awaiting its write at pc names in its update
NamedFields(pc) ==
    IF pc \in {"sp_key_write", "si_key_write", "ws_key_write", "wr_skey_write"}
      THEN {"encryptedKey", "publicKeyHex", "schemaVersion"}
    ELSE IF pc \in {"sp_mn_write", "si_mn_write", "ws_mn_write", "wr_smn_write"}
      THEN {"encryptedMnemonic"}
    ELSE IF pc = "sp_hash_write" THEN {"pinHash"}
    ELSE IF pc \in {"ws_cred_write", "wr_scred_write"}
      THEN {"webauthnCredential", "webauthnEncryptionKey"}
    ELSE {}

NamedPreferences(pc) ==
    IF pc = "sp_hash_write" THEN {"authMethod", "pinLength"}
    ELSE IF pc \in {"ws_cred_write", "wr_scred_write", "si_pref_write"}
      THEN {"authMethod"}
    ELSE IF pc \in {"reset_write", "rf_write", "ru_write"}
      THEN {"failedPinAttempts", "lastFailedAttemptAt"}
    ELSE IF pc = "pref_write" THEN {"autoLockEnabled"}
    ELSE {}

\* C30: the write of an updateStorage changes no field of the record and no
\* preference other than those its update names: all others keep the value
\* they had before the call (one call is in flight at a time, so that value
\* is the one in the store when the write lands), whether the read before it
\* was answered from the store or failed.
C30_UpdateFrame ==
    [][\A t \in TaskIds :
        (tasks[t].pc \in WritePcs /\ db' # db) =>
            /\ \A f \in DOMAIN db \ ({"preferences"} \cup NamedFields(tasks[t].pc)) :
                  db'[f] = db[f]
            /\ \A q \in DOMAIN db.preferences \ NamedPreferences(tasks[t].pc) :
                  db'.preferences[q] = db.preferences[q]]_vars

-----------------------------------------------------------------------------
(* Properties: the NIP-49 envelope *)

\* a decryption was made and it threw
Failed(r) == r # NoResult /\ ~r.ok

\* C23: two failed calls of the same decoder report the same error, whatever
\* made each of them fail (wrong prefix, wrong version, failed authentication
\* tag).
C23_OpaqueFailure ==
    (/\ call.fn = "nip49"
     /\ call.decoder = call.prevDecoder
     /\ Failed(call.result) /\ Failed(call.prev))
        => call.result.error = call.prev.error

\* this step opens, with the decoder meant for it, an envelope that is as
\* encrypt / encryptMnemonicNip49 returned it
OpensSealed ==
    /\ call.fn = "nip49"
    /\ call'.step = "decrypt"
    /\ ~call.altered
    /\ call'.decoder = IF call.kind = "key" THEN "decrypt" ELSE "decryptMnemonicNip49"

\* the plaintext the envelope was sealed over
Sealed == IF call.kind = "key" THEN call.key ELSE call.mnemonic

\* a string TextEncoder and TextDecoder give back as it was: no unpaired
\* surrogate in it and no byte order mark in front
WellFormed(mnemonic) ==
    /\ \A i \in DOMAIN mnemonic.words : mnemonic.words[i] # LoneSurrogate
    /\ Len(mnemonic.words) > 0 => mnemonic.words[1] # ByteOrderMark

ExpectedPrefix(decoder) ==
    IF decoder = "decrypt" THEN "ncryptsec" ELSE "ncryptmnem"

\* C25: decrypt and decryptMnemonicNip49 reject an envelope that carries
\* another prefix than their own or a version byte other than 2, and do so
\* before scrypt is run; what they accept has their prefix and version 2.
C25_FailsClosed ==
    [][(call.fn = "nip49" /\ call'.step = "decrypt") =>
         /\ (\/ call.envelope.hrp # ExpectedPrefix(call'.decoder)
             \/ call.envelope.version # 2)
               => ~call'.result.ok /\ ~call'.result.kdf
         /\ call'.result.ok =>
               /\ call.envelope.hrp = ExpectedPrefix(call'.decoder)
               /\ call.envelope.version = 2]_vars

\* decrypt was given a key envelope of version 3, intact and with its own
\* password, and threw on the version
C25_Witness ==
    /\ call.fn = "nip49" /\ call.step = "decrypt" /\ call.decoder = "decrypt"
    /\ call.envelope.hrp = "ncryptsec" /\ call.envelope.version = 3
    /\ call.envelope.intact /\ call.envelope.password = NFKC(call.typed)
    /\ ~call.result.ok /\ call.result.error = "Invalid version"
    /\ ~call.result.kdf

-----------------------------------------------------------------------------
(* Properties: selectRandomWordIndices *)

\* C26: selectRandomWordIndices returns min(selectCount, wordCount) indices,
\* each in 0..wordCount-1, no two equal, in ascending order.
C26_SelectedIndices ==
    (call.fn = "selectRandomWordIndices" /\ call.step = "return") =>
        /\ Len(call.result) = Min(call.selectCount, call.wordCount)
        /\ \A j \in DOMAIN call.result : call.result[j] \in 0..(call.wordCount - 1)
        /\ \A j, k \in DOMAIN call.result : j < k => call.result[j] < call.result[k]

\* three of four words were asked for; 3, 0 and 2 were picked in that order
\* and came back as 0, 2, 3
C26_Witness ==
    /\ call.fn = "selectRandomWordIndices" /\ call.step = "return"
    /\ call.wordCount = 4 /\ call.selectCount = 3
    /\ call.drawn = <<3, 0, 2>>
    /\ call.result = <<0, 2, 3>>

-----------------------------------------------------------------------------
(* Properties: timingSafeEqual *)

\* C27: on two byte strings of equal length timingSafeEqual runs its loop
\* once per byte, whether the strings differ or not and wherever they
\* differ, and returns TRUE exactly when they are equal.
C27_ConstantTime ==
    (/\ call.fn = "timingSafeEqual" /\ call.step = "return"
     /\ Len(call.a) = Len(call.b)) =>
        /\ call.iterations = Len(call.a)
        /\ call.value = (call.a = call.b)

\* two strings of three bytes that differ in the first byte only were
\* compared in three turns
C27_Witness ==
    /\ call.fn = "timingSafeEqual" /\ call.step = "return"
    /\ call.a = <<1, 255, 0>> /\ call.b = <<0, 255, 0>>
    /\ call.iterations = 3
    /\ ~call.value

-----------------------------------------------------------------------------
(* Properties: validateMnemonic and mnemonicToPrivateKey *)

\* the two functions gave the variant what they gave the phrase
SameResults ==
    /\ call.step = "validateMnemonic" => call.valid[1] = call.valid[2]
    /\ call.step = "mnemonicToPrivateKey" => call.key[1] = call.key[2]

\* C28 as stated: for any phrase, changing the case of letters or adding
\* leading, trailing or repeated internal whitespace changes neither the
\* verdict of validateMnemonic nor the key of mnemonicToPrivateKey.
C28_NormalisationInvariant ==
    call.fn = "mnemonic" => SameResults

\* C28, amended: the same for a phrase of ASCII letters and whitespace.
C28_NormalisationInvariant_Amended ==
    (/\ call.fn = "mnemonic"
     /\ \A j \in DOMAIN call.phrase :
           call.phrase[j] \in AsciiLetters \cup WhiteSpace) => SameResults

\* the twelve words with a tab added after the first word derive the key of
\* the twelve words
C28_Witness ==
    /\ call.fn = "mnemonic" /\ call.step = "mnemonicToPrivateKey"
    /\ call.phrase = Joined(12)
    /\ call.variant = Word \o <<" ", "\t">> \o SubSeq(Joined(12), 5, Len(Joined(12)))
    /\ call.key[1].ok /\ call.key[2] = call.key[1]

-----------------------------------------------------------------------------
(* Properties: the nsec and npub codec *)

\* a string was encoded and decoded by the decoder of its own kind
RoundTripped ==
    /\ call.fn = "codec" /\ call.step = "decode"
    /\ call.decoder = IF call.kind = "nsec" THEN "nsecToPrivateKey"
                                            ELSE "npubToPublicKey"

\* the hex string in lower case
LowerCaseHex(hex) == [j \in DOMAIN hex |-> HexDigits[HexVal(hex[j]) + 1]]

\* C29 as stated: nsecToPrivateKey(privateKeyToNsec(x)) = x and
\* npubToPublicKey(publicKeyToNpub(y)) = y for every hex value x and y.
C29_CodecRoundTrip ==
    RoundTripped => call.decoded.ok /\ call.decoded.value = call.hex

\* C29, amended: the round trip returns the hex value in lower case, which
\* is x itself when x is written in lower case.
C29_CodecRoundTrip_Amended ==
    RoundTripped =>
        /\ call.decoded.ok
        /\ call.decoded.value = LowerCaseHex(call.hex)
        /\ call.hex = LowerCaseHex(call.hex) => call.decoded.value = call.hex

\* the private key 0af0, in lower case, came back from its nsec unchanged
C29_Witness ==
    /\ RoundTripped /\ call.kind = "nsec"
    /\ call.hex = <<"0", "a", "f", "0">>
    /\ call.encoded = [hrp |-> "nsec", data |-> <<1, 11, 24, 0>>]
    /\ call.decoded.ok /\ call.decoded.value = call.hex

-----------------------------------------------------------------------------
(* Properties: exportMnemonic *)

\* exportMnemonic returns after decrypting the envelope with the typed PIN
ExportTestsPin ==
    /\ securityState.authMethod = "pin"
    /\ \E t \in TaskIds : tasks[t].op = "exportMnemonic" /\ tasks'[t].op = "idle"
    /\ ret'.op = "exportMnemonic" /\ ret'.decryptAttempted

\* C31: a PIN that exportMnemonic tests against the stored mnemonic envelope
\* is tested only while no lockout is active and, when it is wrong, adds one
\* to failedPinAttempts, as a PIN given to unlockWithPIN does.
C31_ExportRateLimited ==
    [][ExportTestsPin =>
          /\ ~LockoutActive
          /\ ~ret'.success =>
                db'.preferences.failedPinAttempts
                    = db.preferences.failedPinAttempts + 1]_vars

\* C32: between two resets of the failure counter at most maxAttempts wrong
\* PINs are checked against the stored verifier or the envelope, also with
\* several unlockWithPIN calls in flight
C32_GuessesBounded ==
    wrongChecked <= PIN_RATE_LIMIT.maxAttempts

\* the secrets the persisted record designates for its key: the PINs that
\* match pinHash, the stored random secret, or the fixed constant
DesignatedSecrets ==
    IF db.preferences.authMethod = "pin"
      THEN IF db.pinHash = Null THEN {}
           ELSE {p \in Pins : verifyPin(p, db.pinHash)}
    ELSE IF db.preferences.authMethod = "webauthn"
      THEN IF db.webauthnEncryptionKey = Null THEN {}
           ELSE {db.webauthnEncryptionKey.key}
    ELSE {INSECURE_STORAGE_KEY}

\* C33: at every point the persisted encryptedKey decrypts with the secret
\* the same record designates, also between the writes of a setup
C33_KeyMatchesRecord ==
    db.encryptedKey # Null
      => \E secret \in DesignatedSecrets :
            decryptPrivateKeyNip49(db.encryptedKey, secret).ok

\* performUnlock would decrypt the persisted key: the unlock its switch
\* selects finds its secret and the secret opens the envelope
PerformUnlockDecrypts ==
    IF securityState.authMethod = "webauthn"
      THEN /\ db.webauthnCredential # Null
           /\ db.webauthnEncryptionKey # Null
           /\ decryptPrivateKeyNip49(db.encryptedKey,
                                     db.webauthnEncryptionKey.key).ok
    ELSE IF securityState.authMethod = "pin"
      THEN \E pin \in Pins :
              /\ isValidPIN(pin, securityState.pinLength)
              /\ db.pinHash # Null => verifyPin(pin, db.pinHash)
              /\ decryptPrivateKeyNip49(db.encryptedKey, pin).ok
    ELSE /\ securityState.hasStoredKey
         /\ decryptPrivateKeyNip49(db.encryptedKey, INSECURE_STORAGE_KEY).ok

\* the record and the store agree on WebAuthn and the stored secret opens
\* the key envelope
WebAuthnConfigured ==
    /\ securityState.authMethod = "webauthn"
    /\ db.preferences.authMethod = "webauthn"
    /\ db.webauthnCredential # Null
    /\ db.webauthnEncryptionKey # Null
    /\ db.encryptedKey # Null
    /\ decryptPrivateKeyNip49(db.encryptedKey, db.webauthnEncryptionKey.key).ok

\* C34: after disableWebAuthn completes (here: on a complete WebAuthn
\* setup), no encrypted key remains in the record or performUnlock can still
\* decrypt the key that remains
C34_DisableKeepsKeyUsable ==
    [][(ret'.op = "disableWebAuthn" /\ WebAuthnConfigured)
         => (db'.encryptedKey = Null \/ PerformUnlockDecrypts')]_vars

\* the unlockInsecure that performUnlock calls on a record whose WebAuthn
\* credential was removed never returns the key
DisabledThenUnlocked ==
    [][(/\ ret'.op = "unlockInsecure"
        /\ db.webauthnCredential = Null /\ db.pinHash = Null
        /\ db.encryptedKey # Null
        /\ db.encryptedKey.password # INSECURE_STORAGE_KEY)
         => ~ret'.success]_vars

\* the call in slot t is a setupPINAuth of its own caller and returns success
\* in this step
SetupPINAuthSucceeds(t) ==
    /\ tasks[t].op = "setupPINAuth" /\ tasks[t].caller = "none"
    /\ tasks'[t].op = "idle"
    /\ ret'.op = "setupPINAuth" /\ ret'.success

\* C35: after a successful setup (here setupPINAuth) the persisted
\* encryptedMnemonic is null or decrypts under the new secret to the mnemonic
\* given with the new key; the envelope of an earlier setup does not survive
\* a setup that gives no mnemonic
C35_NoStaleMnemonic ==
    [][\A t \in TaskIds :
          SetupPINAuthSucceeds(t)
            => \/ db'.encryptedMnemonic = Null
               \/ LET r == decryptMnemonicNip49(db'.encryptedMnemonic, tasks[t].pin)
                  IN  r.ok /\ r.value = tasks[t].mn]_vars

\* C36: isUnlocked is true exactly when a decrypted key is held in memory,
\* and while it is false unlockExpiresAt is null and no lock timer is
\* pending; also after initializeSecurity ran while a session was open
C36_UnlockedIffKeyHeld ==
    /\ securityState.isUnlocked <=> currentUnlockedKey # Null
    /\ ~securityState.isUnlocked
         => securityState.unlockExpiresAt = 0 /\ timers = {}

\* the operations C37 speaks of
MirrorOperations ==
    {"setupPINAuth", "setupWebAuthnAuth", "storeInsecurely", "disableWebAuthn",
     "rotateWebAuthnCredential", "clearAllSecurityData"}

\* the in-memory mirror agrees with the persisted record
MirrorAgrees ==
    /\ securityState.authMethod = db.preferences.authMethod
    /\ securityState.hasStoredKey <=> db.encryptedKey # Null

\* C37: once initializeSecurity has completed, whenever a setup, disable,
\* rotate or wipe operation has returned, with success or with a failure
\* result, securityState.authMethod is the persisted authMethod and
\* hasStoredKey tells whether a key is persisted
C37_MirrorAgrees ==
    [][(/\ ~securityState.isInitializing
        /\ ret'.op \in MirrorOperations /\ ~ret'.rejected) => MirrorAgrees']_vars

\* C38: once clearAllSecurityData has completed the persisted record stays at
\* its defaults until a setup is invoked afterwards: no step of a call that
\* was in flight when the wipe completed takes the record off its defaults
C38_WipeIsFinal ==
    [][(/\ db = createDefaultSchema
        /\ \E t \in TaskIds : tasks[t].beforeWipe /\ tasks'[t] # tasks[t])
         => db' = createDefaultSchema]_vars

\* upload or download work of the sync in flight is still to be done
TransferPending ==
    /\ call.fn = "RelaySync"
    /\ \/ call.pc = "sync_resume" /\ (call.have > 0 \/ call.need > 0)
       \/ call.pc = "upload"
       \/ call.pc = "download"

\* C39: during sync() the status is not 'complete', and isSyncing is not
\* false, while upload or download work of the same sync is pending
C39_CompleteOnlyWhenDone ==
    TransferPending => (call.status # "complete" /\ isSyncing(call))

====
